---- MODULE Spec2Model ----
(***************************************************************************)
(* A model of sdkmaker's SwaggerParser pipeline (parseToDocObject,         *)
(* processContent, validateBasicStructure, normalizeDoc, resolveRefs,      *)
(* transformToControllerFormat) and of the emitters that consume its       *)
(* result.  JavaScript objects and arrays live in a heap of nodes, so that *)
(* sharing, in-place assignment and deep copies are what the code makes    *)
(* them; documents are written down as immutable trees.                    *)
(***************************************************************************)
EXTENDS Integers, Sequences, FiniteSets, TLC

(***************************************************************************)
(* JavaScript values.  A tree is a JSON text's meaning; a heap value is    *)
(* a primitive or a reference to a heap node (an object or an array).      *)
(***************************************************************************)
Str(s) == [t |-> "str", s |-> s, kv |-> <<>>]
Bool(b) == [t |-> "bool", s |-> IF b THEN "true" ELSE "false", kv |-> <<>>]
Null == [t |-> "null", s |-> "", kv |-> <<>>]
Obj(kv) == [t |-> "obj", s |-> "", kv |-> kv]
Digits == <<"0", "1", "2", "3", "4", "5", "6", "7", "8", "9">>
DecStr(i) == Digits[i + 1]
Arr(els) == [t |-> "arr", s |-> "", kv |-> [i \in 1..Len(els) |-> <<DecStr(i - 1), els[i]>>]]
UndefinedTree == [t |-> "undef", s |-> "", kv |-> <<>>]
CircularTree == [t |-> "circular", s |-> "", kv |-> <<>>]

VStr(s) == [t |-> "str", s |-> s, r |-> 0]
VBool(b) == [t |-> "bool", s |-> IF b THEN "true" ELSE "false", r |-> 0]
VNull == [t |-> "null", s |-> "", r |-> 0]
Undefined == [t |-> "undef", s |-> "", r |-> 0]
VRef(r) == [t |-> "ref", s |-> "", r |-> r]

(***************************************************************************)
(* String primitives of the runtime, over TLA+ strings.                    *)
(***************************************************************************)
Includes(s, sub) ==
    \E i \in 1..(Len(s) - Len(sub) + 1) : SubSeq(s, i, i + Len(sub) - 1) = sub

IndexOf(s, sub) ==
    IF Includes(s, sub)
    THEN CHOOSE i \in 1..(Len(s) - Len(sub) + 1) :
            /\ SubSeq(s, i, i + Len(sub) - 1) = sub
            /\ \A j \in 1..(i - 1) : SubSeq(s, j, j + Len(sub) - 1) # sub
    ELSE 0

RECURSIVE Split(_, _)
Split(s, sep) ==
    LET i == IndexOf(s, sep)
    IN  IF i = 0 THEN <<s>>
        ELSE <<SubSeq(s, 1, i - 1)>> \o Split(SubSeq(s, i + Len(sep), Len(s)), sep)

ReplaceFirst(s, pat, rep) ==
    LET i == IndexOf(s, pat)
    IN  IF i = 0 THEN s
        ELSE SubSeq(s, 1, i - 1) \o rep \o SubSeq(s, i + Len(pat), Len(s))

StartsWith(s, pre) == Len(s) >= Len(pre) /\ SubSeq(s, 1, Len(pre)) = pre

SeqIncludes(parts, x) == \E i \in 1..Len(parts) : parts[i] = x

(***************************************************************************)
(* The heap: a sequence of nodes, a node's id being its index.             *)
(***************************************************************************)
Node(arr, keys, vals) == [arr |-> arr, keys |-> keys, vals |-> vals]

HasOwn(h, v, key) == v.t = "ref" /\ SeqIncludes(h[v.r].keys, key)

KeyIndex(node, key) == CHOOSE i \in 1..Len(node.keys) : node.keys[i] = key

\* s[key] of a string s: its character at index key, when key is an index
StrProp(s, key) ==
    LET at == {i \in 1..Len(Digits) : i <= Len(s) /\ Digits[i] = key}
    IN  IF at = {} THEN Undefined
        ELSE VStr(LET i == CHOOSE i \in at : TRUE IN SubSeq(s, i, i))

\* obj[key] for an obj that is neither undefined nor null, and a key that is
\* no member of a prototype
GetProp(h, v, key) ==
    IF HasOwn(h, v, key) THEN h[v.r].vals[KeyIndex(h[v.r], key)]
    ELSE IF v.t = "str" THEN StrProp(v.s, key)
    ELSE Undefined

Nullish(v) == v.t \in {"undef", "null"}

Truthy(v) ==
    CASE v.t \in {"undef", "null"} -> FALSE
      [] v.t = "bool" -> v.s = "true"
      [] v.t = "num" -> v.s # "0"
      [] v.t = "str" -> v.s # ""
      [] OTHER -> TRUE

\* `${v}` of a primitive
ToStr(v) ==
    CASE v.t = "undef" -> "undefined"
      [] v.t = "null" -> "null"
      [] v.t = "ref" -> "[object Object]"
      [] OTHER -> v.s

NewObject(h, keys, vals) ==
    [h |-> Append(h, Node(FALSE, keys, vals)), v |-> VRef(Len(h) + 1)]

NewArray(h, vals) ==
    [h |-> Append(h, Node(TRUE, [i \in 1..Len(vals) |-> DecStr(i - 1)], vals)),
     v |-> VRef(Len(h) + 1)]

SetVal(h, r, i, v) == [h EXCEPT ![r].vals[i] = v]

\* F(v), with v computed once and before F: the sequencing of statements
Bind(v, F(_)) == CHOOSE y \in {F(x) : x \in {v}} : TRUE

RECURSIVE Alloc(_, _), AllocKids(_, _, _, _)
\* the children kv[i..] of a new node, given the values vals of kv[1..i-1]
AllocKids(h, kv, i, vals) ==
    IF i > Len(kv) THEN [h |-> h, vals |-> vals]
    ELSE Bind(Alloc(h, kv[i][2]),
              LAMBDA kid : AllocKids(kid.h, kv, i + 1, Append(vals, kid.v)))

\* JSON.parse of the text whose meaning is tree tr: fresh nodes, children first
Alloc(h, tr) ==
    IF tr.t \in {"obj", "arr"}
    THEN Bind(AllocKids(h, tr.kv, 1, <<>>),
              LAMBDA kids :
                  [h |-> Append(kids.h, Node(tr.t = "arr",
                                             [i \in 1..Len(tr.kv) |-> tr.kv[i][1]],
                                             kids.vals)),
                   v |-> VRef(Len(kids.h) + 1)])
    ELSE [h |-> h, v |-> [t |-> tr.t, s |-> tr.s, r |-> 0]]

RECURSIVE TreeOf(_, _, _)
\* the tree a heap value denotes; a node met again on its own path is cut
TreeOf(h, v, seen) ==
    IF v.t # "ref" THEN [t |-> v.t, s |-> v.s, kv |-> <<>>]
    ELSE IF v.r \in seen THEN CircularTree
    ELSE LET n == h[v.r]
         IN  [t |-> IF n.arr THEN "arr" ELSE "obj",
              s |-> "",
              kv |-> [i \in 1..Len(n.keys) |->
                        <<n.keys[i], TreeOf(h, n.vals[i], seen \cup {v.r})>>]]

Tree(h, v) == TreeOf(h, v, {})

RECURSIVE Reach(_, _)
\* the nodes reachable from the nodes of todo, seen being those already found
Reach(h, todo) ==
    LET next == UNION {{h[r].vals[i].r : i \in 1..Len(h[r].vals)} : r \in todo} \ {0}
    IN  IF next \subseteq todo THEN todo ELSE Reach(h, todo \cup next)

Nodes(h, v) == IF v.t = "ref" THEN Reach(h, {v.r}) ELSE {}

(***************************************************************************)
(* Results of the operations: the heap after the call, the value returned  *)
(* and the class of the error thrown ("" when none was).                   *)
(***************************************************************************)
Ok(h, v) == [h |-> h, v |-> v, err |-> ""]
Throw(h, e) == [h |-> h, v |-> Undefined, err |-> e]

RECURSIVE StripUndefined(_)
\* what JSON.stringify keeps: no undefined-valued key, null for undefined items
StripUndefined(tr) ==
    IF tr.t = "undef" THEN Null
    ELSE IF tr.t = "arr"
    THEN [tr EXCEPT !.kv = [i \in 1..Len(tr.kv) |-> <<tr.kv[i][1], StripUndefined(tr.kv[i][2])>>]]
    ELSE IF tr.t = "obj"
    THEN LET kept == SelectSeq(tr.kv, LAMBDA e : e[2].t # "undef")
         IN  [tr EXCEPT !.kv = [i \in 1..Len(kept) |-> <<kept[i][1], StripUndefined(kept[i][2])>>]]
    ELSE tr

RECURSIVE HasCircular(_)
HasCircular(tr) ==
    tr.t = "circular" \/ \E i \in 1..Len(tr.kv) : HasCircular(tr.kv[i][2])

\* no copy at all: the document itself
SameDocument(h, v) == Ok(h, v)

\* JSON.parse(JSON.stringify(doc))
JsonClone(h, v) ==
    LET tr == Tree(h, v)
    IN  IF tr.t = "undef" THEN Throw(h, "SyntaxError")
        ELSE IF HasCircular(tr) THEN Throw(h, "TypeError")
        ELSE Bind(Alloc(h, StripUndefined(tr)), LAMBDA a : Ok(a.h, a.v))

(***************************************************************************)
(* resolveRefs                                                             *)
(***************************************************************************)
\* the classification with its two tests in the other order
getRefInfoSchemasFirst(ref) ==
    LET parts == Split(ref, "/")
        name == parts[Len(parts)]
    IN  IF SeqIncludes(parts, "schemas") THEN [name |-> name, type |-> "schema"]
        ELSE IF SeqIncludes(parts, "parameters") THEN [name |-> name, type |-> "parameter"]
        ELSE [name |-> name, type |-> "other"]

getRefInfo(ref) ==
    LET parts == Split(ref, "/")
        name == parts[Len(parts)]
    IN  IF SeqIncludes(parts, "parameters") THEN [name |-> name, type |-> "parameter"]
        ELSE IF SeqIncludes(parts, "schemas") THEN [name |-> name, type |-> "schema"]
        ELSE [name |-> name, type |-> "other"]

\* the type test accepting every type that is a string
IsNamedType(type) == type.t = "str"

IsPrimitiveType(type) == type = VStr("string") \/ type = VStr("integer")

\* the test `paramDef.in && paramDef.name && paramDef.schema`
IsParameterDefinition(h, obj) ==
    /\ Truthy(GetProp(h, obj, "in"))
    /\ Truthy(GetProp(h, obj, "name"))
    /\ Truthy(GetProp(h, obj, "schema"))

\* parameterDetails with `required` as the definition wrote it, absent or not
ParameterDetailsAsWritten(h, paramDef) ==
    LET schema == GetProp(h, paramDef, "schema")
    IN  NewObject(h, <<"name", "type", "location", "required", "format">>,
                  <<GetProp(h, paramDef, "name"),
                    GetProp(h, schema, "type"),
                    GetProp(h, paramDef, "in"),
                    GetProp(h, paramDef, "required"),
                    GetProp(h, schema, "format")>>)

\* the parameterDetails object of a descriptor
ParameterDetails(h, paramDef) ==
    LET schema == GetProp(h, paramDef, "schema")
    IN  NewObject(h, <<"name", "type", "location", "required", "format">>,
                  <<GetProp(h, paramDef, "name"),
                    GetProp(h, schema, "type"),
                    GetProp(h, paramDef, "in"),
                    VBool(Truthy(GetProp(h, paramDef, "required"))),
                    GetProp(h, schema, "format")>>)

\* refName is a string value, or null for an inline parameter
extractParameterInfo(h, paramDef, refName) ==
    IF Nullish(paramDef) THEN Throw(h, "TypeError")
    ELSE IF /\ IsParameterDefinition(h, paramDef)
            /\ IsPrimitiveType(GetProp(h, GetProp(h, paramDef, "schema"), "type"))
    THEN Bind(ParameterDetails(h, paramDef),
              LAMBDA details :
                  Bind(NewObject(details.h,
                           <<"modelName", "refType", "isReference", "parameterDetails">>,
                           <<refName, VStr("parameter"), VBool(Truthy(refName)), details.v>>),
                       LAMBDA info : Ok(info.h, info.v)))
    ELSE Ok(h, paramDef)

RECURSIVE WalkRefPath(_, _, _)
\* for (const path of refPath) paramDef = paramDef[path]
WalkRefPath(h, paramDef, refPath) ==
    IF refPath = <<>> THEN [v |-> paramDef, err |-> ""]
    ELSE IF Nullish(paramDef) THEN [v |-> Undefined, err |-> "TypeError"]
    ELSE WalkRefPath(h, GetProp(h, paramDef, Head(refPath)), Tail(refPath))

ReferenceHandle(h, name, type) ==
    NewObject(h, <<"modelName", "refType", "isReference">>,
              <<VStr(name), VStr(type), VBool(TRUE)>>)

\* the branch following a parameter pointer for as long as it leads to another
\* `$ref` node, the call stack giving out (RangeError) after sixteen frames
resolveReferenceChasing(h, resolved, obj) ==
    LET RECURSIVE Chase(_, _)
        Chase(node, depth) ==
            LET ref == GetProp(h, node, "$ref")
                info == getRefInfo(ref.s)
                target == WalkRefPath(h, resolved, Split(ReplaceFirst(ref.s, "#/", ""), "/"))
            IN  IF depth > 16 THEN Throw(h, "RangeError")
                ELSE IF ref.t # "str" THEN Throw(h, "TypeError")
                ELSE IF info.type # "parameter"
                THEN Bind(ReferenceHandle(h, info.name, info.type),
                          LAMBDA handle : Ok(handle.h, handle.v))
                ELSE IF target.err # "" THEN Throw(h, target.err)
                ELSE IF target.v.t = "ref" /\ Truthy(GetProp(h, target.v, "$ref"))
                THEN Chase(target.v, depth + 1)
                ELSE extractParameterInfo(h, target.v, VStr(info.name))
    IN  Chase(obj, 1)

\* the branch `if (obj.$ref)` of resolveRef
resolveReference(h, resolved, obj) ==
    LET ref == GetProp(h, obj, "$ref")
    IN  IF ref.t # "str" THEN Throw(h, "TypeError")
        ELSE LET info == getRefInfo(ref.s)
             IN  IF info.type = "parameter"
                 THEN LET refPath == Split(ReplaceFirst(ref.s, "#/", ""), "/")
                          target == WalkRefPath(h, resolved, refPath)
                      IN  IF target.err # "" THEN Throw(h, target.err)
                          ELSE extractParameterInfo(h, target.v, VStr(info.name))
                 ELSE Bind(ReferenceHandle(h, info.name, info.type),
                           LAMBDA handle : Ok(handle.h, handle.v))

RECURSIVE resolveRef(_, _, _), ResolveItems(_, _, _, _, _), ResolveKeys(_, _, _, _)
\* obj.map(item => resolveRef(item)): a new array, the old one untouched
ResolveItems(h, resolved, r, i, acc) ==
    IF i > Len(h[r].vals)
    THEN Bind(NewArray(h, acc), LAMBDA a : Ok(a.h, a.v))
    ELSE Bind(resolveRef(h, resolved, h[r].vals[i]),
              LAMBDA res : IF res.err # "" THEN res
                           ELSE ResolveItems(res.h, resolved, r, i + 1, Append(acc, res.v)))

\* for (const key in obj) obj[key] = resolveRef(obj[key])
ResolveKeys(h, resolved, r, i) ==
    IF i > Len(h[r].vals) THEN Ok(h, VRef(r))
    ELSE Bind(resolveRef(h, resolved, h[r].vals[i]),
              LAMBDA res : IF res.err # "" THEN res
                           ELSE ResolveKeys(SetVal(res.h, r, i, res.v), resolved, r, i + 1))

resolveRef(h, resolved, obj) ==
    IF obj.t # "ref" THEN Ok(h, obj)
    ELSE IF h[obj.r].arr THEN ResolveItems(h, resolved, obj.r, 1, <<>>)
    ELSE IF Truthy(GetProp(h, obj, "$ref")) THEN resolveReference(h, resolved, obj)
    ELSE IF IsParameterDefinition(h, obj) THEN extractParameterInfo(h, obj, VNull)
    ELSE ResolveKeys(h, resolved, obj.r, 1)

resolveRefs(h, doc) ==
    Bind(JsonClone(h, doc),
         LAMBDA resolved : IF resolved.err # "" THEN resolved
                           ELSE resolveRef(resolved.h, resolved.v, resolved.v))

(***************************************************************************)
(* normalizeDoc                                                            *)
(***************************************************************************)
\* a || b
OrElse(a, b) == IF Truthy(a) THEN a ELSE b

\* a?.[key]
OptProp(h, a, key) == IF Nullish(a) THEN Undefined ELSE GetProp(h, a, key)

\* the url with `??` in place of `||`: only an absent or null scheme is replaced
ServerUrlNullish(h, doc) ==
    (IF Nullish(OptProp(h, GetProp(h, doc, "schemes"), "0")) THEN "https"
     ELSE ToStr(OptProp(h, GetProp(h, doc, "schemes"), "0")))
        \o "://" \o ToStr(GetProp(h, doc, "host"))
        \o ToStr(OrElse(GetProp(h, doc, "basePath"), VStr("")))

\* `${doc.schemes?.[0] || 'https'}://${doc.host}${doc.basePath || ''}`
ServerUrl(h, doc) ==
    ToStr(OrElse(OptProp(h, GetProp(h, doc, "schemes"), "0"), VStr("https")))
        \o "://" \o ToStr(GetProp(h, doc, "host"))
        \o ToStr(OrElse(GetProp(h, doc, "basePath"), VStr("")))

\* doc[key] || {}  (or [] when arr)
PropOrNew(h, doc, key, arr) ==
    IF Truthy(GetProp(h, doc, key)) THEN [h |-> h, v |-> GetProp(h, doc, key)]
    ELSE IF arr THEN NewArray(h, <<>>) ELSE NewObject(h, <<>>, <<>>)

\* the servers of a Swagger 2.0 document: one entry when it has a host
Swagger2Servers(h, doc) ==
    IF Truthy(GetProp(h, doc, "host"))
    THEN Bind(NewObject(h, <<"url">>, <<VStr(ServerUrl(h, doc))>>),
              LAMBDA server : NewArray(server.h, <<server.v>>))
    ELSE NewArray(h, <<>>)

\* the components of a Swagger 2.0 document, from its four top-level maps
Swagger2Components(h, doc) ==
    Bind(PropOrNew(h, doc, "definitions", FALSE), LAMBDA schemas :
    Bind(PropOrNew(schemas.h, doc, "parameters", FALSE), LAMBDA parameters :
    Bind(PropOrNew(parameters.h, doc, "responses", FALSE), LAMBDA responses :
    Bind(PropOrNew(responses.h, doc, "securityDefinitions", FALSE), LAMBDA securitySchemes :
        NewObject(securitySchemes.h,
                  <<"schemas", "parameters", "responses", "securitySchemes">>,
                  <<schemas.v, parameters.v, responses.v, securitySchemes.v>>)))))

normalizeSwagger2(h, doc) ==
    Bind(Swagger2Servers(h, doc), LAMBDA servers :
    Bind(Swagger2Components(servers.h, doc), LAMBDA components :
    Bind(PropOrNew(components.h, doc, "tags", TRUE), LAMBDA tags :
    Bind(NewObject(tags.h,
             <<"openapi", "info", "servers", "paths", "components", "tags">>,
             <<IF GetProp(h, doc, "swagger") = VStr("2.0") THEN VStr("3.0.0")
               ELSE GetProp(h, doc, "swagger"),
               GetProp(h, doc, "info"), servers.v, GetProp(h, doc, "paths"),
               components.v, tags.v>>),
         LAMBDA out : Ok(out.h, out.v)))))

normalizeOpenApi3(h, doc) ==
    Bind(PropOrNew(h, doc, "servers", TRUE), LAMBDA servers :
    Bind(PropOrNew(servers.h, doc, "components", FALSE), LAMBDA components :
    Bind(PropOrNew(components.h, doc, "tags", TRUE), LAMBDA tags :
    Bind(NewObject(tags.h,
             <<"openapi", "info", "servers", "paths", "components", "tags">>,
             <<GetProp(h, doc, "openapi"), GetProp(h, doc, "info"), servers.v,
               GetProp(h, doc, "paths"), components.v, tags.v>>),
         LAMBDA out : Ok(out.h, out.v)))))

normalizeDoc(h, doc) ==
    IF doc.t # "ref" THEN Throw(h, "TypeError")
    ELSE IF HasOwn(h, doc, "swagger") THEN normalizeSwagger2(h, doc)
    ELSE normalizeOpenApi3(h, doc)

(***************************************************************************)
(* transformToControllerFormat                                             *)
(***************************************************************************)
\* Object.entries(v) for a v that is neither undefined nor null
Entries(h, v) ==
    IF v.t = "ref" THEN [i \in 1..Len(h[v.r].keys) |-> <<h[v.r].keys[i], h[v.r].vals[i]>>]
    ELSE IF v.t = "str" THEN [i \in 1..Len(v.s) |-> <<DecStr(i - 1), VStr(SubSeq(v.s, i, i))>>]
    ELSE <<>>

\* obj[key] = v for a key obj does not have yet
AddKey(h, r, key, v) ==
    [h EXCEPT ![r].keys = Append(@, key), ![r].vals = Append(@, v)]

\* arr.push(v)
Push(h, r, v) == AddKey(h, r, DecStr(Len(h[r].keys)), v)

InternalMarker == "Controller_"
DefaultControllerName == "DefaultController"

\* the test without its second half: every named operation is listed
IsNamedOperation(h, operationId) == IF Truthy(operationId) THEN "yes" ELSE "no"

\* operation.operationId && !operation.operationId.includes("Controller_"):
\* "yes", "no", or "TypeError" when the identifier has no includes method
IsPublicOperation(h, operationId) ==
    IF ~Truthy(operationId) THEN "no"
    ELSE IF operationId.t = "str"
    THEN IF Includes(operationId.s, InternalMarker) THEN "no" ELSE "yes"
    ELSE IF operationId.t = "ref" /\ h[operationId.r].arr
    THEN IF SeqIncludes(h[operationId.r].vals, VStr(InternalMarker)) THEN "no" ELSE "yes"
    ELSE "TypeError"

\* the object pushed for an operation: method, path, operationId and each of the
\* optional fields that is truthy
OperationEntry(h, path, method, operation) ==
    LET optional == SelectSeq(<<"summary", "parameters", "requestBody", "responses">>,
                              LAMBDA k : Truthy(GetProp(h, operation, k)))
    IN  NewObject(h, <<"method", "path", "operationId">> \o optional,
                  <<VStr(method), VStr(path), GetProp(h, operation, "operationId")>>
                      \o [i \in 1..Len(optional) |-> GetProp(h, operation, optional[i])])

\* arr.unshift(v): the operation put at the head of the controller's list
PrependOperation(h, list, entry) ==
    [h EXCEPT ![list].keys = Append(@, DecStr(Len(@))), ![list].vals = <<entry>> \o @]

\* where the operation is appended: push, at the end of the controller's list
AppendOperation(h, list, entry) == Push(h, list, entry)

\* the first tag taken as it is: `${operation.tags?.[0]}`, without a default
FirstTagName(h, operation) == ToStr(OptProp(h, GetProp(h, operation, "tags"), "0"))

\* the controller of an operation: operation.tags?.[0] || "DefaultController"
ControllerName(h, operation) ==
    ToStr(OrElse(OptProp(h, GetProp(h, operation, "tags"), "0"),
                 VStr(DefaultControllerName)))

\* controllers[tag] = [] without the test: a fresh list for every operation
ResetController(h, controllers, tag) ==
    Bind(NewArray(h, <<>>),
         LAMBDA made :
             IF HasOwn(h, controllers, tag)
             THEN SetVal(made.h, controllers.r, KeyIndex(h[controllers.r], tag), made.v)
             ELSE AddKey(made.h, controllers.r, tag, made.v))

\* if (!controllers[tag]) controllers[tag] = []
EnsureController(h, controllers, tag) ==
    IF Truthy(GetProp(h, controllers, tag)) THEN h
    ELSE Bind(NewArray(h, <<>>), LAMBDA made : AddKey(made.h, controllers.r, tag, made.v))

\* the body of the inner forEach, for one [method, operation] of a path item
ProjectOperation(h, controllers, path, method, operation) ==
    IF ~Truthy(operation) THEN Ok(h, controllers)
    ELSE Bind(EnsureController(h, controllers, ControllerName(h, operation)),
              LAMBDA h1 :
                  Bind(IsPublicOperation(h1, GetProp(h1, operation, "operationId")),
                       LAMBDA public :
                           IF public = "TypeError" THEN Throw(h1, "TypeError")
                           ELSE IF public = "no" THEN Ok(h1, controllers)
                           ELSE Bind(OperationEntry(h1, path, method, operation),
                                     LAMBDA entry :
                                         Ok(AppendOperation(entry.h,
                                                GetProp(h1, controllers,
                                                        ControllerName(h, operation)).r,
                                                entry.v),
                                            controllers))))

RECURSIVE ProjectMethods(_, _, _, _, _)
ProjectMethods(h, controllers, path, entries, i) ==
    IF i > Len(entries) THEN Ok(h, controllers)
    ELSE Bind(ProjectOperation(h, controllers, path, entries[i][1], entries[i][2]),
              LAMBDA res : IF res.err # "" THEN res
                           ELSE ProjectMethods(res.h, controllers, path, entries, i + 1))

RECURSIVE ProjectPaths(_, _, _, _)
ProjectPaths(h, controllers, entries, i) ==
    IF i > Len(entries) THEN Ok(h, controllers)
    ELSE IF Nullish(entries[i][2]) THEN Throw(h, "TypeError")
    ELSE Bind(ProjectMethods(h, controllers, entries[i][1], Entries(h, entries[i][2]), 1),
              LAMBDA res : IF res.err # "" THEN res
                           ELSE ProjectPaths(res.h, controllers, entries, i + 1))

\* x = dflt in a destructuring pattern: the default replaces undefined only
Defaulted(h, v, arr) ==
    IF v.t # "undef" THEN [h |-> h, v |-> v]
    ELSE IF arr THEN NewArray(h, <<>>) ELSE NewObject(h, <<>>, <<>>)

transformToControllerFormat(h, parsedDoc) ==
    IF Nullish(parsedDoc) \/ Nullish(GetProp(h, parsedDoc, "info"))
    THEN Throw(h, "TypeError")
    ELSE LET info == GetProp(h, parsedDoc, "info")
             description == IF GetProp(h, info, "description").t = "undef" THEN VStr("")
                            ELSE GetProp(h, info, "description")
             paths == GetProp(h, parsedDoc, "paths")
         IN  Bind(Defaulted(h, GetProp(h, parsedDoc, "servers"), TRUE), LAMBDA servers :
             Bind(Defaulted(servers.h, GetProp(h, parsedDoc, "components"), FALSE),
                  LAMBDA components :
             IF Nullish(servers.v) \/ Nullish(paths) THEN Throw(components.h, "TypeError")
             ELSE
             Bind(NewObject(components.h, <<>>, <<>>), LAMBDA controllers :
             Bind(ProjectPaths(controllers.h, controllers.v,
                               Entries(controllers.h, paths), 1), LAMBDA res :
             IF res.err # "" THEN res
             ELSE
             Bind(NewObject(res.h,
                      <<"controllers", "components", "baseUrl", "name", "description",
                        "version">>,
                      <<controllers.v, components.v,
                        OrElse(OptProp(res.h, GetProp(res.h, servers.v, "0"), "url"),
                               VStr("")),
                        GetProp(h, info, "title"), description,
                        GetProp(h, info, "version")>>),
                  LAMBDA out : Ok(out.h, out.v))))))

(***************************************************************************)
(* The emitters.  Each returns the text it generates; the heap it returns  *)
(* is the heap after its assignments and in-place sorts.                   *)
(***************************************************************************)
RECURSIVE Join(_, _)
\* parts.join(sep)
Join(parts, sep) ==
    IF parts = <<>> THEN ""
    ELSE IF Len(parts) = 1 THEN parts[1]
    ELSE parts[1] \o sep \o Join(Tail(parts), sep)

UpperCase == "ABCDEFGHIJKLMNOPQRSTUVWXYZ"
LowerCase == "abcdefghijklmnopqrstuvwxyz"
WordChars == UpperCase \o LowerCase \o "0123456789_"

CharIn(c, chars) == \E i \in 1..Len(chars) : SubSeq(chars, i, i) = c

\* c.toLowerCase() of one character
ToLowerChar(c) ==
    IF CharIn(c, UpperCase)
    THEN LET i == CHOOSE i \in 1..Len(UpperCase) : SubSeq(UpperCase, i, i) = c
         IN  SubSeq(LowerCase, i, i)
    ELSE c

RECURSIVE SafeChars(_)
\* every character outside [a-zA-Z0-9_] replaced by "_", the rest in lower case
SafeChars(name) ==
    IF name = "" THEN ""
    ELSE (IF CharIn(SubSeq(name, 1, 1), WordChars) THEN ToLowerChar(SubSeq(name, 1, 1))
          ELSE "_")
         \o SafeChars(SubSeq(name, 2, Len(name)))

getSafeVariableName(name) ==
    IF name # "" /\ CharIn(SubSeq(name, 1, 1), "0123456789") THEN "_" \o SafeChars(name)
    ELSE SafeChars(name)

\* modelName.charAt(0).toLowerCase() + modelName.slice(1)
LowerFirst(name) ==
    IF name = "" THEN "" ELSE ToLowerChar(SubSeq(name, 1, 1)) \o SubSeq(name, 2, Len(name))

\* p.parameterDetails?.required, as the comparator of the sort reads it
DetailsRequired(h, param) ==
    Truthy(OptProp(h, GetProp(h, param, "parameterDetails"), "required"))

\* parameters.sort(...): the array itself reordered, required parameters first,
\* the order among equals kept
SortParameters(h, parameters) ==
    [h EXCEPT ![parameters.r].vals =
        SelectSeq(@, LAMBDA p : DetailsRequired(h, p))
            \o SelectSeq(@, LAMBDA p : ~DetailsRequired(h, p))]

\* the callback of the map of convertToFunctionParams: [v, err]
FunctionParam(h, param) ==
    LET details == GetProp(h, param, "parameterDetails")
        name == GetProp(h, details, "name")
        typeAnnotation ==
            IF GetProp(h, details, "type") = VStr("integer") THEN "number"
            ELSE IF GetProp(h, details, "format") = VStr("date") THEN "Date"
            ELSE "string"
    IN  IF ~Truthy(details) THEN [v |-> "", err |-> ""]
        ELSE IF name.t # "str" THEN [v |-> "", err |-> "TypeError"]
        ELSE [v |-> getSafeVariableName(name.s)
                        \o (IF Truthy(GetProp(h, details, "required")) THEN "" ELSE "?")
                        \o ": " \o typeAnnotation,
              err |-> ""]

convertToFunctionParams(h, parameters) ==
    Bind(SortParameters(h, parameters), LAMBDA sorted :
        LET mapped == [i \in 1..Len(sorted[parameters.r].vals) |->
                          FunctionParam(sorted, sorted[parameters.r].vals[i])]
        IN  IF \E i \in 1..Len(mapped) : mapped[i].err # "" THEN Throw(sorted, "TypeError")
            ELSE Ok(sorted, Join(SelectSeq([i \in 1..Len(mapped) |-> mapped[i].v],
                                           LAMBDA piece : piece # ""), ", ")))

convertRequestBodyToParam(h, requestBody) ==
    LET schema == OptProp(h, OptProp(h, OptProp(h, requestBody, "content"),
                                     "application/json"), "schema")
        modelName == GetProp(h, schema, "modelName")
    IN  IF ~Truthy(schema) THEN Ok(h, "")
        ELSE IF modelName.t # "str" THEN Throw(h, "TypeError")
        ELSE Ok(h, LowerFirst(modelName.s)
                       \o (IF Truthy(GetProp(h, requestBody, "required")) THEN "" ELSE "?")
                       \o ": " \o modelName.s)

\* parameters && parameters.length > 0
HasParameters(h, parameters) ==
    /\ Truthy(parameters)
    /\ \/ parameters.t = "str"
       \/ parameters.t = "ref" /\ h[parameters.r].arr /\ h[parameters.r].vals # <<>>

parseParameters(h, method) ==
    LET requestBody == GetProp(h, method, "requestBody")
        parameters == GetProp(h, method, "parameters")
    IN  Bind(IF Truthy(requestBody) THEN convertRequestBodyToParam(h, requestBody)
             ELSE Ok(h, ""), LAMBDA bodyParam :
        IF bodyParam.err # "" THEN bodyParam
        ELSE IF ~HasParameters(h, parameters) THEN bodyParam
        ELSE IF parameters.t # "ref" THEN Throw(h, "TypeError")
        ELSE Bind(convertToFunctionParams(h, parameters), LAMBDA paramsString :
             IF paramsString.err # "" THEN paramsString
             ELSE Ok(paramsString.h,
                     Join(SelectSeq(<<bodyParam.v, paramsString.v>>,
                                    LAMBDA piece : piece # ""), ", "))))

\* the schema of the JSON content of a response or request body
JsonSchema(h, body) ==
    OptProp(h, OptProp(h, OptProp(h, body, "content"), "application/json"), "schema")

\* responses['default'] || responses['200'] || responses['201']
SuccessResponse(h, responses) ==
    OrElse(GetProp(h, responses, "default"),
           OrElse(GetProp(h, responses, "200"), GetProp(h, responses, "201")))

\* modelName ?? items?.modelName ?? 'any'
SchemaModelName(h, schema) ==
    LET modelName == GetProp(h, schema, "modelName")
        itemsName == OptProp(h, GetProp(h, schema, "items"), "modelName")
    IN  IF ~Nullish(modelName) THEN ToStr(modelName)
        ELSE IF ~Nullish(itemsName) THEN ToStr(itemsName)
        ELSE "any"

generateReturnType(h, responses) ==
    IF Nullish(responses) THEN Throw(h, "TypeError")
    ELSE LET successResponse == SuccessResponse(h, responses)
             schema == JsonSchema(h, successResponse)
             isArray == GetProp(h, schema, "type") = VStr("array")
         IN  IF Truthy(schema)
             THEN Ok(h, "Promise<" \o (IF isArray THEN "Array<" ELSE "")
                            \o SchemaModelName(h, schema)
                            \o (IF isArray THEN ">" ELSE "") \o ">")
             ELSE IF Truthy(successResponse) THEN Ok(h, "Promise<void>")
             ELSE Ok(h, "Promise<unknown>")

\* returnType.replace(/Promise<(.+)>/, '$1') of a generated return type
RawResponseType(returnType) == SubSeq(returnType, Len("Promise<") + 1, Len(returnType) - 1)

\* the declaration line of the method generateMethod writes; its documentation
\* comment and its body are read off the same fields and assign nothing
generateMethod(h, methodConfig) ==
    Bind(generateReturnType(h, GetProp(h, methodConfig, "responses")), LAMBDA returnType :
        IF returnType.err # "" THEN returnType
        ELSE Bind(parseParameters(h, methodConfig), LAMBDA paramsString :
             IF paramsString.err # "" THEN paramsString
             ELSE Ok(paramsString.h,
                     "export async function "
                         \o ToStr(GetProp(h, methodConfig, "operationId"))
                         \o "(" \o paramsString.v \o "): Promise<ApiResponse<"
                         \o RawResponseType(returnType.v) \o ">>")))

RECURSIVE GenerateMethods(_, _, _, _)
\* methods.map(generateMethod), from the i-th method on
GenerateMethods(h, methods, i, acc) ==
    IF i > Len(h[methods.r].vals) THEN Ok(h, acc)
    ELSE Bind(generateMethod(h, h[methods.r].vals[i]), LAMBDA text :
              IF text.err # "" THEN text
              ELSE GenerateMethods(text.h, methods, i + 1, Append(acc, text.v)))

generateApiMethods(h, methods) ==
    Bind(GenerateMethods(h, methods, 1, <<>>), LAMBDA texts :
         IF texts.err # "" THEN texts ELSE Ok(texts.h, Join(texts.v, "\n\n")))

\* the model names of one method: of its request body and of its responses
MethodModelNames(h, method) ==
    LET bodyName == OptProp(h, JsonSchema(h, GetProp(h, method, "requestBody")), "modelName")
        responses == Entries(h, GetProp(h, method, "responses"))
        ResponseName(response) ==
            LET schema == JsonSchema(h, response)
            IN  IF Truthy(OptProp(h, schema, "modelName")) THEN GetProp(h, schema, "modelName")
                ELSE OptProp(h, OptProp(h, schema, "items"), "modelName")
    IN  {ToStr(name) : name \in
            {n \in {bodyName} \cup {ResponseName(responses[i][2]) : i \in 1..Len(responses)} :
                Truthy(n)}}

\* the names generateModelsList collects (it writes them sorted, one per line)
generateModelsList(h, methods) ==
    UNION {MethodModelNames(h, h[methods.r].vals[i]) : i \in 1..Len(h[methods.r].vals)}

RECURSIVE GenerateControllers(_, _, _, _, _)
\* the callbacks of generateControllerFiles, controller by controller: a callback
\* that throws rejects its own promise and the next controllers are still visited
GenerateControllers(h, entries, i, written, err) ==
    IF i > Len(entries) THEN [h |-> h, v |-> written, err |-> err]
    ELSE IF h[entries[i][2].r].vals = <<>>
    THEN GenerateControllers(h, entries, i + 1, written, err)
    ELSE Bind(generateApiMethods(h, entries[i][2]), LAMBDA apiMethods :
         IF apiMethods.err # ""
         THEN GenerateControllers(apiMethods.h, entries, i + 1, written,
                                  IF err = "" THEN apiMethods.err ELSE err)
         ELSE GenerateControllers(apiMethods.h, entries, i + 1,
                  Append(written, [filename |-> entries[i][1] \o ".ts",
                                   models |-> generateModelsList(h, entries[i][2]),
                                   content |-> apiMethods.v]),
                  err))

\* the files written, and the error Promise.all rejects with
generateControllerFiles(h, controllers) ==
    GenerateControllers(h, Entries(h, controllers), 1, <<>>, "")

\* one method of createClient.ts; parseParameters is called twice
ClientMethod(h, method) ==
    Bind(parseParameters(h, method), LAMBDA declared :
        IF declared.err # "" THEN declared
        ELSE Bind(parseParameters(declared.h, method), LAMBDA passed :
             IF passed.err # "" THEN passed
             ELSE Ok(passed.h, "async function " \o ToStr(GetProp(h, method, "operationId"))
                                   \o "(" \o declared.v \o ")")))

RECURSIVE ClientMethods(_, _, _, _, _)
\* the nested maps of generateCreateClientFile: method j of controller i onwards
ClientMethods(h, entries, i, j, acc) ==
    IF i > Len(entries) THEN Ok(h, acc)
    ELSE IF j > Len(h[entries[i][2].r].vals) THEN ClientMethods(h, entries, i + 1, 1, acc)
    ELSE Bind(ClientMethod(h, h[entries[i][2].r].vals[j]), LAMBDA text :
         IF text.err # "" THEN text
         ELSE ClientMethods(text.h, entries, i, j + 1, Append(acc, text.v)))

generateCreateClientFile(h, controllers) ==
    Bind(ClientMethods(h, Entries(h, controllers), 1, 1, <<>>), LAMBDA texts :
         IF texts.err # "" THEN texts
         ELSE Ok(texts.h,
                 [filename |-> "createClient.ts",
                  models |-> UNION {generateModelsList(texts.h, Entries(h, controllers)[i][2]) :
                                        i \in 1..Len(Entries(h, controllers))},
                  content |-> Join(texts.v, "\n")]))

(***************************************************************************)
(* Texts.  A text is its characters together with what each decoder makes  *)
(* of them (JSON.parse and the YAML loader are libraries): a tree, or      *)
(* ParseFail when the decoder throws.                                      *)
(***************************************************************************)
ParseFail == [t |-> "fail", s |-> "", kv |-> <<>>]

RECURSIVE JsonText(_), JsonMembers(_, _, _)
JsonMembers(kv, i, isArr) ==
    IF i > Len(kv) THEN ""
    ELSE (IF i > 1 THEN "," ELSE "")
         \o (IF isArr THEN "" ELSE "\"" \o kv[i][1] \o "\":")
         \o JsonText(kv[i][2]) \o JsonMembers(kv, i + 1, isArr)

\* JSON.stringify of a tree
JsonText(tr) ==
    CASE tr.t = "obj" -> "{" \o JsonMembers(tr.kv, 1, FALSE) \o "}"
      [] tr.t = "arr" -> "[" \o JsonMembers(tr.kv, 1, TRUE) \o "]"
      [] tr.t = "str" -> "\"" \o tr.s \o "\""
      [] tr.t = "null" -> "null"
      [] OTHER -> tr.s

Text(s, json, yaml) == [t |-> "str", s |-> s, json |-> json, yaml |-> yaml]
JsonDocText(tr) == Text(JsonText(tr), tr, tr)
NoText == [t |-> "undef", s |-> "", json |-> ParseFail, yaml |-> ParseFail]

(***************************************************************************)
(* The documents given to parse.  MaxOps bounds the operations of a        *)
(* document, MaxParams the parameters of an operation.                     *)
(***************************************************************************)
MaxOps == 3
MaxParams == 2

SeqsUpTo(S, n) == UNION {[1..k -> S] : k \in 0..n}

PRef(pointer) == Obj(<< <<"$ref", Str(pointer)>> >>)

PageSizeParameter ==
    Obj(<< <<"in", Str("query")>>, <<"name", Str("pageSize")>>, <<"required", Bool(FALSE)>>,
           <<"schema", Obj(<< <<"type", Str("integer")>>, <<"format", Str("int32")>> >>)>> >>)

UserIdParameter ==
    Obj(<< <<"in", Str("path")>>, <<"name", Str("userId")>>, <<"required", Bool(TRUE)>>,
           <<"schema", Obj(<< <<"type", Str("string")>> >>)>> >>)

LimitParameter ==
    Obj(<< <<"in", Str("query")>>, <<"name", Str("limit")>>,
           <<"schema", Obj(<< <<"type", Str("integer")>> >>)>> >>)

SortParameter ==
    Obj(<< <<"in", Str("query")>>, <<"name", Str("sort")>>,
           <<"schema", Obj(<< <<"type", Str("array")>>,
                              <<"items", PRef("#/components/schemas/Test")>> >>)>> >>)

\* a parameter described by `content` in place of `schema`
ContentParameter ==
    Obj(<< <<"in", Str("query")>>, <<"name", Str("filter")>>,
           <<"content", Obj(<< <<"application/json",
                Obj(<< <<"schema", PRef("#/components/schemas/Test")>> >>)>> >>)>> >>)

TestSchema == Obj(<< <<"type", Str("object")>> >>)

NodeSchema ==
    Obj(<< <<"type", Str("object")>>,
           <<"properties", Obj(<< <<"next", PRef("#/components/schemas/Node")>> >>)>> >>)

\* components of the documents whose parameters vary; cyclic adds pointer cycles
Components(cyclic) ==
    Obj(<< <<"schemas", Obj(<< <<"Test", TestSchema>> >>
                            \o IF cyclic THEN << <<"Node", NodeSchema>> >> ELSE <<>>)>>,
           <<"parameters",
             Obj(<< <<"PageSize", PageSizeParameter>>, <<"UserId", UserIdParameter>>,
                    <<"Limit", LimitParameter>>, <<"Sort", SortParameter>>,
                    <<"Chain", PRef("#/components/parameters/PageSize")>>,
                    <<"Hop", PRef("#/components/parameters/Chain")>>,
                    <<"Content", ContentParameter>> >>
                 \o IF cyclic
                    THEN << <<"LoopA", PRef("#/components/parameters/LoopB")>>,
                            <<"LoopB", PRef("#/components/parameters/LoopA")>>,
                            <<"Self", PRef("#/components/parameters/Self")>> >>
                    ELSE <<>>)>> >>)

ReferencedParameters == {"PageSize", "UserId", "Limit", "Sort", "Chain", "Content", "Missing"}
CyclicParameters == {"LoopA", "Self"}
InlineParameters == {"inlineString", "inlineSchemaRef", "inlineContent", "bare"}

ParamChoices(cyclic) ==
    IF cyclic THEN CyclicParameters \cup {"PageSize", "UserId", "inlineSchemaRef"}
    ELSE ReferencedParameters \cup InlineParameters

ParamTree(c) ==
    CASE c = "inlineString" ->
            Obj(<< <<"name", Str("q")>>, <<"in", Str("query")>>,
                   <<"schema", Obj(<< <<"type", Str("string")>> >>)>> >>)
      [] c = "inlineSchemaRef" ->
            Obj(<< <<"name", Str("filter")>>, <<"in", Str("query")>>,
                   <<"required", Bool(TRUE)>>,
                   <<"schema", PRef("#/components/schemas/Test")>> >>)
      [] c = "bare" -> Obj(<< <<"name", Str("id")>>, <<"in", Str("query")>> >>)
      [] c = "inlineContent" -> ContentParameter
      [] OTHER -> PRef("#/components/parameters/" \o c)

OkResponses == Obj(<< <<"200", Obj(<< <<"description", Str("OK")>> >>)>> >>)

\* the operation of a document whose parameters vary
ParamOperation(params) ==
    Obj(<< <<"operationId", Str("listUsers")>>, <<"tags", Arr(<<Str("Users")>>)>>,
           <<"summary", Str("List users")>> >>
        \o (IF params = <<>> THEN <<>> ELSE << <<"parameters", Arr(params)>> >>)
        \o << <<"responses", OkResponses>> >>)

ParamTrees(cs) == [i \in 1..Len(cs) |-> ParamTree(cs[i])]

\* the tag and the operationId of an operation ("none": the field is absent)
OperationChoices ==
    {[tag |-> "TestController", operationId |-> "getTest"],
     [tag |-> "TestController", operationId |-> "Controller_postTest"],
     [tag |-> "TestController", operationId |-> "none"],
     [tag |-> "Other", operationId |-> "listOther"],
     [tag |-> "Other", operationId |-> "AppController_list"],
     [tag |-> "none", operationId |-> "getTest"],
     [tag |-> "empty", operationId |-> "listAll"],
     [tag |-> "none", operationId |-> ""]}

TagsTree(tag) ==
    IF tag = "Other" THEN Arr(<<Str("Other"), Str("TestController")>>)
    ELSE IF tag = "empty" THEN Arr(<<>>)
    ELSE Arr(<<Str(tag)>>)

\* an operation of a document whose operations vary
TaggedOperation(c) ==
    Obj((IF c.operationId = "none" THEN <<>>
         ELSE << <<"operationId", Str(c.operationId)>> >>)
        \o (IF c.tag = "none" THEN <<>> ELSE << <<"tags", TagsTree(c.tag)>> >>))

PathNames == <<"/users", "/test", "/orders", "/items">>
SlotPath(i) == PathNames[(i + 1) \div 2]
SlotMethod(i) == IF i % 2 = 1 THEN "post" ELSE "get"

\* the paths map of a document whose operations are ops, in document order
PathsTree(ops) ==
    Obj([j \in 1..((Len(ops) + 1) \div 2) |->
            <<PathNames[j],
              Obj([m \in 1..(IF 2 * j <= Len(ops) THEN 2 ELSE 1) |->
                      <<SlotMethod(2 * (j - 1) + m), ops[2 * (j - 1) + m]>>])>>])

TestInfo == Obj(<< <<"title", Str("Test API")>>, <<"version", Str("1.0.0")>> >>)

OpenApiDoc(ops, components) ==
    Obj(<< <<"openapi", Str("3.0.0")>>, <<"info", TestInfo>>,
           <<"paths", PathsTree(ops)>>, <<"components", components>> >>)

MockComponents == Obj(<< <<"schemas", Obj(<< <<"Test", TestSchema>> >>)>> >>)

mockSwaggerDoc ==
    Obj(<< <<"openapi", Str("3.0.0")>>, <<"info", TestInfo>>,
           <<"paths", Obj(<< <<"/test", Obj(<<
                <<"get", Obj(<< <<"operationId", Str("getTest")>>,
                                <<"tags", Arr(<<Str("TestController")>>)>>,
                                <<"summary", Str("Test endpoint")>>,
                                <<"parameters", Arr(<<ParamTree("bare")>>)>>,
                                <<"responses", OkResponses>> >>)>>,
                <<"post", Obj(<< <<"operationId", Str("Controller_postTest")>>,
                                 <<"tags", Arr(<<Str("TestController")>>)>> >>)>> >>)>> >>)>>,
           <<"components", MockComponents>> >>)

validSwaggerYamlDoc ==
    Obj(<< <<"openapi", Str("3.0.0")>>, <<"info", TestInfo>>,
           <<"paths", Obj(<< <<"/test", Obj(<<
                <<"get", Obj(<< <<"operationId", Str("getTest")>>,
                                <<"tags", Arr(<<Str("TestController")>>)>> >>)>> >>)>> >>)>> >>)

\* a Swagger 2.0 document: host, schemes, basePath, and the 2.0 maps
Swagger2Doc(host, params) ==
    Obj(<< <<"swagger", Str("2.0")>>, <<"info", TestInfo>> >>
        \o (IF host = "" THEN <<>>
            ELSE << <<"host", Str(host)>>, <<"schemes", Arr(<<Str("https")>>)>>,
                    <<"basePath", Str("")>> >>)
        \o << <<"paths", PathsTree(<<ParamOperation(params)>>)>>,
              <<"definitions",
                Obj(<< <<"Test", TestSchema>>,
                       <<"List", Obj(<< <<"type", Str("array")>>,
                                        <<"items", PRef("#/definitions/Test")>> >>)>> >>)>>,
              <<"parameters", Obj(<< <<"PageSize", PageSizeParameter>> >>)>> >>)

TaggedDocs ==
    {OpenApiDoc([i \in 1..Len(cs) |-> TaggedOperation(cs[i])], MockComponents) :
        cs \in SeqsUpTo(OperationChoices, MaxOps)}

ParamDocs ==
    UNION {{OpenApiDoc(<<ParamOperation(ParamTrees(ps))>>, Components(cyclic)) :
                ps \in SeqsUpTo(ParamChoices(cyclic), MaxParams)} :
           cyclic \in BOOLEAN}

Swagger2Docs ==
    {Swagger2Doc(host, ps) :
        host \in {"", "api.example.com"},
        ps \in {<<>>, <<PRef("#/parameters/PageSize")>>,
                      <<PRef("#/components/parameters/PageSize")>>}}

\* the pointers of the documents whose responses hold references
RefPointers ==
    {"#/components/schemas/Test", "#/components/responses/NotFound", "#/definitions/Test",
     "#/components/schemas/parameters", "#/components/parameters/PageSize"}

\* the documents of one operation whose 200 response has the schema {$ref: p}
\* and whose 404 response is {$ref: q}
RefDocs ==
    LET RefOperation(p, q) ==
            Obj(<< <<"operationId", Str("getItem")>>, <<"tags", Arr(<<Str("Items")>>)>>,
                   <<"responses",
                     Obj(<< <<"200", Obj(<< <<"description", Str("OK")>>,
                                            <<"content", Obj(<< <<"application/json",
                                                 Obj(<< <<"schema", PRef(p)>> >>)>> >>)>> >>)>>,
                            <<"404", PRef(q)>> >>)>> >>)
        RefComponents ==
            Obj(<< <<"schemas", Obj(<< <<"Test", TestSchema>>, <<"parameters", TestSchema>> >>)>>,
                   <<"parameters", Obj(<< <<"PageSize", PageSizeParameter>> >>)>>,
                   <<"responses",
                     Obj(<< <<"NotFound", Obj(<< <<"description", Str("Not found")>> >>)>> >>)>> >>)
    IN  {OpenApiDoc(<<RefOperation(p, q)>>, RefComponents) : p, q \in RefPointers}

\* a Swagger 2.0 document with its host, schemes and basePath as given, a
\* field being absent when its value is undefined
Swagger2Server(host, schemes, basePath) ==
    LET Optional(key, value) ==
            IF value = UndefinedTree THEN <<>> ELSE << <<key, value>> >>
    IN  Obj(<< <<"swagger", Str("2.0")>>, <<"info", TestInfo>> >>
            \o Optional("host", host) \o Optional("schemes", schemes)
            \o Optional("basePath", basePath)
            \o << <<"paths", PathsTree(<<ParamOperation(<<>>)>>)>> >>)

Swagger2ServerDocs ==
    {Swagger2Server(host, schemes, basePath) :
        host \in {UndefinedTree, Str(""), Str("api.example.com")},
        schemes \in {UndefinedTree, Arr(<<>>), Arr(<<Null>>), Arr(<<Str("")>>),
                     Arr(<<Str("https")>>), Arr(<<Str("http"), Str("https")>>)},
        basePath \in {UndefinedTree, Str(""), Str("/v1")}}

InvalidDoc == Obj(<< <<"invalid", Bool(TRUE)>> >>)

\* the keys of OpenAPIPathItem
HttpMethods == {"get", "post", "put", "delete", "patch", "options", "head", "trace"}

\* documents whose one path item holds, before its get operation, an entry
\* that is no operation
PathItemDocs ==
    {Obj(<< <<"openapi", Str("3.0.0")>>, <<"info", TestInfo>>,
            <<"paths",
              Obj(<< <<"/users",
                       Obj(<<entry,
                             <<"get", TaggedOperation([tag |-> "TestController",
                                                       operationId |-> "getTest"])>> >>)>> >>)>>,
            <<"components", MockComponents>> >>) :
        entry \in {<<"summary", Str("Users")>>, <<"description", Str("The users")>>,
                   <<"parameters", Arr(<<ParamTree("inlineString")>>)>>,
                   <<"x-internal", Obj(<< <<"operationId", Str("hidden")>>,
                                          <<"tags", Arr(<<Str("Internal")>>)>> >>)>>}}

\* documents with a mapping that is no parameter and has the keys `in`, `name`
\* and `schema`: the properties of a schema, and the schemas map itself
PropertyDocs ==
    LET StringSchema == Obj(<< <<"type", Str("string")>> >>)
        Keyed(schema) ==
            Obj(<< <<"in", StringSchema>>, <<"name", StringSchema>>, <<"schema", schema>> >>)
        Filter(schema) ==
            Obj(<< <<"Test", TestSchema>>,
                   <<"Filter", Obj(<< <<"type", Str("object")>>,
                                      <<"properties", Keyed(schema)>> >>)>> >>)
    IN  {OpenApiDoc(<<ParamOperation(<<>>)>>, Obj(<< <<"schemas", schemas>> >>)) :
            schemas \in {Filter(StringSchema), Filter(PRef("#/components/schemas/Test")),
                         Keyed(Obj(<< <<"type", Str("integer")>> >>))}}

\* documents that have one of the four fields of the structure check, and
\* not `info` or not `paths`
PartialDocs ==
    {Obj(<< <<"openapi", Str("3.0.0")>>, <<"paths", PathsTree(<<ParamOperation(<<>>)>>)>> >>),
     Obj(<< <<"openapi", Str("3.0.0")>>, <<"info", TestInfo>> >>),
     Obj(<< <<"info", TestInfo>>, <<"paths", PathsTree(<<ParamOperation(<<>>)>>)>> >>)}

DocTrees ==
    TaggedDocs \cup ParamDocs \cup RefDocs \cup Swagger2Docs \cup Swagger2ServerDocs
        \cup PartialDocs \cup PropertyDocs \cup PathItemDocs \cup {mockSwaggerDoc, InvalidDoc}

validSwaggerYaml ==
    Text("\n    openapi: '3.0.0'\n    info:\n      title: Test API\n      version: 1.0.0\n"
             \o "    paths:\n      /test:\n        get:\n          operationId: getTest\n"
             \o "          tags:\n            - TestController\n  ",
         ParseFail, validSwaggerYamlDoc)

\* a string that is no document: the YAML loader reads it as a plain scalar
Scalar(s) == Text(s, ParseFail, Str(s))

\* texts that neither decoder accepts; the second names the openapi field
Malformed == Text("{not json or yaml", ParseFail, ParseFail)
MalformedDoc == Text("{\"openapi\": not json or yaml", ParseFail, ParseFail)

(***************************************************************************)
(* The collaborators: the working directory and its files, the network.    *)
(***************************************************************************)
Cwd == "/work"

FileNames == {"/work/spec.json", "/work/api.yaml", "/work/invalid.json", "/work/broken.json",
              "/work/null.json"}

FileContent(path) ==
    CASE path = "/work/spec.json" -> JsonDocText(mockSwaggerDoc)
      [] path = "/work/api.yaml" -> validSwaggerYaml
      [] path = "/work/invalid.json" -> JsonDocText(InvalidDoc)
      [] path = "/work/broken.json" -> Malformed
      [] path = "/work/null.json" -> Text("null", Null, Null)

\* response.data of a successful GET: a string, or the object axios decoded
Responses == {"https://api.example.com/docs", "https://api.example.com/docs-yaml",
              "https://api.example.com/docs-string"}

ResponseData(url) ==
    IF url = "https://api.example.com/docs-yaml"
    THEN [isString |-> TRUE, text |-> validSwaggerYaml]
    ELSE [isString |-> FALSE, text |-> JsonDocText(mockSwaggerDoc)]

Locators ==
    {Scalar(s) : s \in Responses \cup {"https://api.error.com/docs", "spec.json", "api.yaml",
                                       "invalid.json", "broken.json", "missing.json",
                                       "null.json",
                                       "/work/spec.json", "/work/api.yaml"}}

NonStrings ==
    {[t |-> "null", s |-> "", json |-> ParseFail, yaml |-> ParseFail],
     [t |-> "num", s |-> "123", json |-> ParseFail, yaml |-> ParseFail],
     [t |-> "undef", s |-> "", json |-> ParseFail, yaml |-> ParseFail]}

Inputs ==
    {JsonDocText(d) : d \in DocTrees} \cup Locators \cup NonStrings
        \cup {validSwaggerYaml, Malformed, MalformedDoc, Text("", ParseFail, Null)}

(***************************************************************************)
(* One call of SwaggerParser.parse, stage by stage, and then the emitters  *)
(* over what it returned.                                                  *)
(***************************************************************************)
VARIABLES input, pc, content, heap, rawDoc, normalizedDoc, docWithResolvedRefs,
          controllerFormat, result, error, log, files, resolvedAgain

vars == <<input, pc, content, heap, rawDoc, normalizedDoc, docWithResolvedRefs,
          controllerFormat, result, error, log, files, resolvedAgain>>

NoError == [name |-> "", operation |-> "", attemptedFormats |-> <<>>, cause |-> ""]
Error(name, operation) == [NoError EXCEPT !.name = name, !.operation = operation]

Init ==
    /\ input \in Inputs
    /\ pc = "parse"
    /\ content = NoText
    /\ heap = <<>>
    /\ rawDoc = Undefined
    /\ normalizedDoc = Undefined
    /\ docWithResolvedRefs = Undefined
    /\ controllerFormat = Undefined
    /\ result = Undefined
    /\ error = NoError
    /\ log = <<>>
    /\ files = <<>>
    /\ resolvedAgain = Undefined

\* an error that is recorded while the parse goes on to normalizeDoc
FailAndGoOn(e) == pc' = "validated" /\ error' = e

\* a throw that leaves parse: no statement of it runs afterwards
Fail(e) == pc' = "failed" /\ error' = e

isValidUrl(s) == StartsWith(s, "http://") \/ StartsWith(s, "https://")
isAbsolute(s) == StartsWith(s, "/")
resolve(s) == Cwd \o "/" \o s

LooksLikeContent(s) ==
    \/ Includes(s, "openapi:")
    \/ Includes(s, "\"openapi\":")
    \/ Includes(s, "swagger:")
    \/ Includes(s, "\"swagger\":")

\* an input the typeof test is not applied to: only `!input` rejects
IsTruthyInput(in) == in.t \notin {"null", "undef"} /\ in.s # ""

\* the inputs parseToDocObject does not reject: !(!input || typeof input !== 'string')
IsValidInput(in) == in.t = "str" /\ in.s # ""

\* the locators parseToDocObject reads as a file
ReadsFile(s) == ~isAbsolute(s) /\ ~LooksLikeContent(s)

\* parseToDocObject, up to the fetch or to the content being chosen
Load ==
    /\ pc = "parse"
    /\ UNCHANGED <<resolvedAgain, input, heap, rawDoc, normalizedDoc, docWithResolvedRefs,
                   controllerFormat, result, files>>
    /\ IF ~IsValidInput(input)
       THEN Fail(Error("ValidationError", "parse")) /\ UNCHANGED <<content, log>>
       ELSE IF isValidUrl(input.s)
       THEN pc' = "fetching" /\ log' = Append(log, "fetch") /\ UNCHANGED <<content, error>>
       ELSE IF ReadsFile(input.s)
       THEN /\ log' = Append(log, "readFile")
            /\ IF resolve(input.s) \in FileNames
               THEN pc' = "loaded" /\ content' = FileContent(resolve(input.s))
                    /\ UNCHANGED error
               ELSE Fail(Error("ValidationError", "parse")) /\ UNCHANGED content
       ELSE pc' = "loaded" /\ content' = input /\ UNCHANGED <<error, log>>

\* a NetworkError that drops the error axios threw
NetworkErrorWithoutCause(cause) == Error("NetworkError", "fetchFromUrl")

\* new NetworkError('fetchFromUrl', 'Failed to fetch Swagger documentation', error)
NetworkError(cause) == [Error("NetworkError", "fetchFromUrl") EXCEPT !.cause = cause]

\* fetchFromUrl once axios.get has settled
fetchFromUrl ==
    /\ pc = "fetching"
    /\ UNCHANGED <<resolvedAgain, input, heap, rawDoc, normalizedDoc, docWithResolvedRefs,
                   controllerFormat, result, log, files>>
    /\ IF input.s \in Responses
       THEN pc' = "loaded" /\ content' = ResponseData(input.s).text /\ UNCHANGED error
       ELSE Fail(NetworkError("transport"))
            /\ UNCHANGED content

\* the formats processContent names when both decoders have thrown
AttemptedFormats == <<"JSON", "YAML">>

processContent ==
    /\ pc = "loaded"
    /\ UNCHANGED <<resolvedAgain, input, content, normalizedDoc, docWithResolvedRefs, controllerFormat,
                   result, files>>
    /\ IF content.json # ParseFail
       THEN /\ log' = Append(log, "JSON.parse")
            /\ \E doc \in {Alloc(heap, content.json)} : heap' = doc.h /\ rawDoc' = doc.v
            /\ pc' = "decoded" /\ UNCHANGED error
       ELSE /\ log' = log \o <<"JSON.parse", "parseYaml">>
            /\ IF content.yaml # ParseFail
               THEN /\ \E doc \in {Alloc(heap, content.yaml)} :
                        heap' = doc.h /\ rawDoc' = doc.v
                    /\ pc' = "decoded" /\ UNCHANGED error
               ELSE /\ Fail([Error("ContentParsingError", "processContent")
                                EXCEPT !.attemptedFormats = AttemptedFormats])
                    /\ UNCHANGED <<heap, rawDoc>>

RequiredFields == <<"swagger", "openapi", "info", "paths">>

validateBasicStructure(h, doc) ==
    \E i \in 1..Len(RequiredFields) : HasOwn(h, doc, RequiredFields[i])

\* the structure check that ends parseToDocObject
Validate ==
    /\ pc = "decoded"
    /\ UNCHANGED <<resolvedAgain, input, content, heap, rawDoc, normalizedDoc, docWithResolvedRefs,
                   controllerFormat, result, files>>
    /\ log' = Append(log, "validateBasicStructure")
    /\ IF Nullish(rawDoc) THEN Fail(Error("TypeError", ""))
       ELSE IF ~validateBasicStructure(heap, rawDoc)
       THEN Fail(Error("ValidationError", "parse"))
       ELSE pc' = "validated" /\ UNCHANGED error

Normalize ==
    /\ pc = "validated"
    /\ UNCHANGED <<resolvedAgain, input, content, rawDoc, docWithResolvedRefs, controllerFormat, result,
                   files>>
    /\ log' = Append(log, "normalizeDoc")
    /\ \E res \in {normalizeDoc(heap, rawDoc)} :
           /\ heap' = res.h
           /\ normalizedDoc' = res.v
           /\ IF res.err # "" THEN Fail(Error(res.err, ""))
              ELSE pc' = "normalized" /\ UNCHANGED error

Resolve ==
    /\ pc = "normalized"
    /\ UNCHANGED <<resolvedAgain, input, content, rawDoc, normalizedDoc, controllerFormat, result,
                   files>>
    /\ log' = Append(log, "resolveRefs")
    /\ \E res \in {resolveRefs(heap, normalizedDoc)} :
           /\ heap' = res.h
           /\ docWithResolvedRefs' = res.v
           /\ IF res.err # "" THEN Fail(Error(res.err, ""))
              ELSE pc' = "resolved" /\ UNCHANGED error

\* the two projections that end parse, and its return
Project ==
    /\ pc = "resolved"
    /\ UNCHANGED <<resolvedAgain, input, content, rawDoc, normalizedDoc, docWithResolvedRefs, files>>
    /\ log' = Append(log, "transformToControllerFormat")
    /\ \E first \in {transformToControllerFormat(heap, normalizedDoc)} :
           IF first.err # ""
           THEN /\ heap' = first.h /\ Fail(Error(first.err, ""))
                /\ UNCHANGED <<controllerFormat, result>>
           ELSE \E second \in {transformToControllerFormat(first.h, docWithResolvedRefs)} :
                /\ heap' = second.h
                /\ controllerFormat' = first.v
                /\ IF second.err # ""
                   THEN Fail(Error(second.err, "")) /\ UNCHANGED result
                   ELSE pc' = "returned" /\ result' = second.v /\ UNCHANGED error

\* makeSdk building createClient.ts from the controllers parse returned
EmitCreateClient ==
    /\ pc = "returned"
    /\ UNCHANGED <<resolvedAgain, input, content, rawDoc, normalizedDoc, docWithResolvedRefs,
                   controllerFormat, result>>
    /\ log' = Append(log, "generateCreateClientFile")
    /\ \E res \in {generateCreateClientFile(heap, GetProp(heap, result, "controllers"))} :
           /\ heap' = res.h
           /\ IF res.err # ""
              THEN pc' = "rejected" /\ error' = Error(res.err, "") /\ UNCHANGED files
              ELSE pc' = "client" /\ files' = Append(files, res.v) /\ UNCHANGED error

\* makeSdk building one file per controller, after createClient.ts
EmitControllerFiles ==
    /\ pc = "client"
    /\ UNCHANGED <<resolvedAgain, input, content, rawDoc, normalizedDoc, docWithResolvedRefs,
                   controllerFormat, result>>
    /\ log' = Append(log, "generateControllerFiles")
    /\ \E res \in {generateControllerFiles(heap, GetProp(heap, result, "controllers"))} :
           /\ heap' = res.h
           /\ files' = files \o res.v
           /\ IF res.err # "" THEN pc' = "rejected" /\ error' = Error(res.err, "")
              ELSE pc' = "generated" /\ UNCHANGED error

Next ==
    \/ Load
    \/ fetchFromUrl
    \/ processContent
    \/ Validate
    \/ Normalize
    \/ Resolve
    \/ Project
    \/ EmitCreateClient
    \/ EmitControllerFiles

Spec == Init /\ [][Next]_vars

(***************************************************************************)
(* resolveRefs applied to its own result: the pipeline up to resolveRefs,  *)
(* and then a second call on the document the first one returned.          *)
(***************************************************************************)
ResolveAgain ==
    /\ pc = "resolved"
    /\ UNCHANGED <<input, content, rawDoc, normalizedDoc, docWithResolvedRefs,
                   controllerFormat, result, files>>
    /\ log' = Append(log, "resolveRefs")
    /\ \E res \in {resolveRefs(heap, docWithResolvedRefs)} :
           /\ heap' = res.h
           /\ resolvedAgain' = res.v
           /\ IF res.err # "" THEN Fail(Error(res.err, ""))
              ELSE pc' = "resolvedAgain" /\ UNCHANGED error

NextResolveAgain ==
    \/ Load
    \/ fetchFromUrl
    \/ processContent
    \/ Validate
    \/ Normalize
    \/ Resolve
    \/ ResolveAgain

SpecResolveAgain == Init /\ [][NextResolveAgain]_vars

(***************************************************************************)
(* Reading documents as trees, for the properties below.                   *)
(***************************************************************************)
HasField(tr, key) == \E i \in 1..Len(tr.kv) : tr.kv[i][1] = key

Field(tr, key) ==
    IF HasField(tr, key)
    THEN tr.kv[CHOOSE i \in 1..Len(tr.kv) : tr.kv[i][1] = key][2]
    ELSE UndefinedTree

RECURSIVE Flatten(_)
Flatten(seqs) == IF seqs = <<>> THEN <<>> ELSE Head(seqs) \o Flatten(Tail(seqs))

\* the document parse decoded, as the decoder read it
Document == IF content.json # ParseFail THEN content.json ELSE content.yaml

\* the operations of a document, paths in document order and methods in
\* document order within a path
DocumentOperations(doc) ==
    LET paths == Field(doc, "paths").kv
    IN  Flatten([p \in 1..Len(paths) |->
                    [m \in 1..Len(paths[p][2].kv) |->
                        [path |-> paths[p][1], method |-> paths[p][2].kv[m][1],
                         operation |-> paths[p][2].kv[m][2]]]])

\* the operation lists of the IR parse returned, one per controller
ControllerLists ==
    LET controllers == Field(Tree(heap, result), "controllers").kv
    IN  [c \in 1..Len(controllers) |->
            [o \in 1..Len(controllers[c][2].kv) |-> controllers[c][2].kv[o][2]]]

Returned == result.t = "ref"

\* parse has returned or thrown
ParseDone == pc \in {"failed", "returned", "client", "generated", "rejected"}

(***************************************************************************)
(* C1.  Filtering: in the IR parse returns, no controller's operation list *)
(* holds an operation whose operationId contains "Controller_", whatever   *)
(* the operation's tag.                                                    *)
(***************************************************************************)
C1_Filtering ==
    Returned =>
        \A c \in 1..Len(ControllerLists) : \A o \in 1..Len(ControllerLists[c]) :
            ~Includes(Field(ControllerLists[c][o], "operationId").s, "Controller_")

\* parse returned an IR with operations for a document that has an operation
\* carrying the marker, under a tag other operations are listed under or not
C1_Witness ==
    /\ Returned
    /\ \E c \in 1..Len(ControllerLists) : ControllerLists[c] # <<>>
    /\ \E c \in 1..Len(ControllerLists) : ControllerLists[c] = <<>>
    /\ \E i \in 1..Len(DocumentOperations(Document)) :
           Includes(Field(DocumentOperations(Document)[i].operation, "operationId").s,
                    "Controller_")

(***************************************************************************)
(* C5.  Ordering: in every controller's operation list of the IR, the      *)
(* operations stand in the order their (path, method) pairs have in the    *)
(* source document: paths in document order, methods in document order     *)
(* within a path.                                                          *)
(***************************************************************************)
DocumentPosition(entry) ==
    CHOOSE i \in 1..Len(DocumentOperations(Document)) :
        /\ Str(DocumentOperations(Document)[i].path) = Field(entry, "path")
        /\ Str(DocumentOperations(Document)[i].method) = Field(entry, "method")

C5_Ordering ==
    Returned =>
        \A c \in 1..Len(ControllerLists) : \A i, j \in 1..Len(ControllerLists[c]) :
            i < j => DocumentPosition(ControllerLists[c][i])
                         < DocumentPosition(ControllerLists[c][j])

\* a controller with three operations, two of one path and one of the next
C5_Witness ==
    /\ Returned
    /\ \E c \in 1..Len(ControllerLists) :
           /\ Len(ControllerLists[c]) = 3
           /\ Field(ControllerLists[c][1], "path") = Field(ControllerLists[c][2], "path")
           /\ Field(ControllerLists[c][1], "method") # Field(ControllerLists[c][2], "method")
           /\ Field(ControllerLists[c][2], "path") # Field(ControllerLists[c][3], "path")

(***************************************************************************)
(* Pointers.  The pointers of a tree, the node a pointer names, and        *)
(* whether the pointers of a document form a cycle.                        *)
(***************************************************************************)
RECURSIVE CarriesRef(_)
\* some object of the tree carries a `$ref` field
CarriesRef(tr) == HasField(tr, "$ref") \/ \E i \in 1..Len(tr.kv) : CarriesRef(tr.kv[i][2])

RECURSIVE RefsIn(_)
\* the pointers the `$ref` fields of a tree hold
RefsIn(tr) ==
    (IF Field(tr, "$ref").t = "str" THEN {Field(tr, "$ref").s} ELSE {})
        \cup UNION {RefsIn(tr.kv[i][2]) : i \in 1..Len(tr.kv)}

RECURSIVE Descend(_, _)
Descend(tr, segments) ==
    IF segments = <<>> THEN tr ELSE Descend(Field(tr, Head(segments)), Tail(segments))

\* the node of doc a pointer "#/a/b/c" names; undefined when there is none
Target(doc, pointer) == Descend(doc, Split(ReplaceFirst(pointer, "#/", ""), "/"))

RECURSIVE PointersFrom(_, _)
\* the pointers met by following, any number of times, the pointers of S
PointersFrom(doc, S) ==
    LET next == UNION {RefsIn(Target(doc, p)) : p \in S}
    IN  IF next \subseteq S THEN S ELSE PointersFrom(doc, S \cup next)

Cyclic(doc) == \E p \in RefsIn(doc) : p \in PointersFrom(doc, RefsIn(Target(doc, p)))

(***************************************************************************)
(* C2.  In the tree resolveRefs returns, no object carries a `$ref` field: *)
(* every `$ref` node of the canonical document is replaced, wherever it    *)
(* sits, also inside a parameter's schema and inside a dereferenced        *)
(* target.  (Stated for documents whose pointers form no cycle.)           *)
(***************************************************************************)
C2_NoRefRemains ==
    pc = "resolved" /\ ~Cyclic(Document) => ~CarriesRef(Tree(heap, docWithResolvedRefs))

(***************************************************************************)
(* C3.  Idempotence: for a canonical document d without cyclic references, *)
(* resolveRefs(resolveRefs(d)) equals resolveRefs(d), fields holding       *)
(* undefined counting as absent, and the result has no `$ref` node left.   *)
(***************************************************************************)
C3_Idempotent ==
    pc = "resolvedAgain" /\ ~Cyclic(Document) =>
        /\ StripUndefined(Tree(heap, resolvedAgain))
               = StripUndefined(Tree(heap, docWithResolvedRefs))
        /\ ~CarriesRef(Tree(heap, resolvedAgain))

(***************************************************************************)
(* C4.  A text that is neither valid JSON nor valid YAML, such as          *)
(* `{not json or yaml`, makes parse fail with ContentParsingError, whose   *)
(* detail lists JSON and YAML as the formats attempted.                    *)
(***************************************************************************)
C4_MalformedTextIsContentParsingError ==
    /\ input.t = "str" /\ input.s # ""
    /\ input.json = ParseFail /\ input.yaml = ParseFail
    /\ ParseDone
    => /\ pc = "failed"
       /\ error.name = "ContentParsingError"
       /\ SeqIncludes(error.attemptedFormats, "JSON")
       /\ SeqIncludes(error.attemptedFormats, "YAML")

(***************************************************************************)
(* C6.  When the input is an absolute path to a readable document file,    *)
(* the file is read and its content, not the path string, is what the      *)
(* decoder receives, as for a relative path.                               *)
(***************************************************************************)
C6_AbsolutePathIsRead ==
    /\ input.t = "str" /\ isAbsolute(input.s) /\ input.s \in FileNames
    /\ pc # "parse"
    => /\ SeqIncludes(log, "readFile")
       /\ content = FileContent(input.s)

(***************************************************************************)
(* C7.  The IR is read-only for the emitters: a step of an emitter leaves  *)
(* every controller's operation list and every operation's parameters      *)
(* sequence as it was, same elements in the same order.                    *)
(***************************************************************************)
C7_EmittersLeaveIR ==
    [][(pc = "returned" \/ pc = "client") =>
          (Tree(heap', GetProp(heap', result, "controllers"))
               = Tree(heap, GetProp(heap, result, "controllers")))]_vars

(***************************************************************************)
(* C8.  resolveRefs never mutates the caller's normalized document: after  *)
(* the call the document is what it was before it, and the tree returned   *)
(* shares no node with it.                                                 *)
(***************************************************************************)
C8_CallerDocumentUntouched ==
    [][pc = "normalized" =>
          (/\ Tree(heap', normalizedDoc) = Tree(heap, normalizedDoc)
           /\ Nodes(heap', docWithResolvedRefs') \cap Nodes(heap', normalizedDoc) = {})]_vars

\* resolveRefs has returned a tree that differs from the normalized document,
\* which still holds its `$ref` nodes and its inline parameter
C8_Witness ==
    /\ pc = "resolved"
    /\ Tree(heap, docWithResolvedRefs) # Tree(heap, normalizedDoc)
    /\ CarriesRef(Field(Tree(heap, normalizedDoc), "paths"))
    /\ \E i \in 1..Len(DocumentOperations(Tree(heap, normalizedDoc))) :
           LET params == Field(DocumentOperations(Tree(heap, normalizedDoc))[i].operation,
                               "parameters")
           IN  \E k \in 1..Len(params.kv) : HasField(params.kv[k][2], "schema")

(***************************************************************************)
(* Parameters of operations, in a document and in the tree resolveRefs     *)
(* returned for it.                                                        *)
(***************************************************************************)
\* the parameters of the operation at (path, method) of a document tree
ParametersAt(doc, path, method) ==
    Field(Descend(doc, <<"paths", path, method>>), "parameters").kv

\* the places (operation i of the document, parameter k of it) that hold a
\* pointer into a parameters map
ParameterPointers(doc) ==
    {place \in UNION {{<<i, k>> : k \in 1..Len(Field(DocumentOperations(doc)[i].operation,
                                                     "parameters").kv)} :
                      i \in 1..Len(DocumentOperations(doc))} :
        LET ref == Field(ParametersAt(doc, DocumentOperations(doc)[place[1]].path,
                                      DocumentOperations(doc)[place[1]].method)[place[2]][2],
                         "$ref")
        IN  ref.t = "str" /\ getRefInfo(ref.s).type = "parameter"}

PointerAt(doc, place) ==
    Field(ParametersAt(doc, DocumentOperations(doc)[place[1]].path,
                       DocumentOperations(doc)[place[1]].method)[place[2]][2], "$ref").s

\* what resolveRefs left at a place of the normalized document
ResolvedAt(place) ==
    LET doc == Tree(heap, normalizedDoc)
    IN  ParametersAt(Tree(heap, docWithResolvedRefs), DocumentOperations(doc)[place[1]].path,
                     DocumentOperations(doc)[place[1]].method)[place[2]][2]

(***************************************************************************)
(* C9.  When the `$ref` pointers of a document form a cycle, the parse     *)
(* fails with a RecursionLimitExceeded error and returns no IR.            *)
(***************************************************************************)
C9_CycleFailsParse ==
    Cyclic(Document) /\ ParseDone =>
        pc = "failed" /\ error.name = "RecursionLimitExceeded" /\ ~Returned

(***************************************************************************)
(* C10.  A parameter defined under components.parameters.N with `in`,      *)
(* `name` and a schema of type string or integer, and referenced by `$ref` *)
(* from an operation, is replaced in that operation by a descriptor with   *)
(* modelName N, isReference true, location equal to `in`, required equal   *)
(* to `required` (false when absent) and the schema type as its type.      *)
(***************************************************************************)
ComponentParameterPrefix == "#/components/parameters/"

\* the places that refer to a primitive parameter of components.parameters
PrimitiveParameterPointers(doc) ==
    {place \in ParameterPointers(doc) :
        /\ StartsWith(PointerAt(doc, place), ComponentParameterPrefix)
        /\ LET def == Target(doc, PointerAt(doc, place))
           IN  /\ Field(def, "in").t = "str" /\ Field(def, "in").s # ""
               /\ Field(def, "name").t = "str" /\ Field(def, "name").s # ""
               /\ Field(Field(def, "schema"), "type") \in {Str("string"), Str("integer")}}

C10_ReferencedParameterDescriptor ==
    pc = "resolved" =>
        \A place \in PrimitiveParameterPointers(Tree(heap, normalizedDoc)) :
            LET pointer == PointerAt(Tree(heap, normalizedDoc), place)
                def == Target(Tree(heap, normalizedDoc), pointer)
                details == Field(ResolvedAt(place), "parameterDetails")
            IN  /\ Field(ResolvedAt(place), "modelName")
                       = Str(SubSeq(pointer, Len(ComponentParameterPrefix) + 1, Len(pointer)))
                /\ Field(ResolvedAt(place), "isReference") = Bool(TRUE)
                /\ Field(details, "location") = Field(def, "in")
                /\ Field(details, "required")
                       = (IF HasField(def, "required") THEN Field(def, "required")
                          ELSE Bool(FALSE))
                /\ Field(details, "type") = Field(Field(def, "schema"), "type")

\* the PageSize example: query, not required, integer
C10_Witness ==
    /\ pc = "resolved"
    /\ \E place \in PrimitiveParameterPointers(Tree(heap, normalizedDoc)) :
           /\ PointerAt(Tree(heap, normalizedDoc), place) = "#/components/parameters/PageSize"
           /\ Field(ResolvedAt(place), "modelName") = Str("PageSize")
           /\ Field(ResolvedAt(place), "isReference") = Bool(TRUE)
           /\ Field(Field(ResolvedAt(place), "parameterDetails"), "location") = Str("query")
           /\ Field(Field(ResolvedAt(place), "parameterDetails"), "required") = Bool(FALSE)
           /\ Field(Field(ResolvedAt(place), "parameterDetails"), "type") = Str("integer")

(***************************************************************************)
(* A Swagger 2.0 document and the OpenAPI 3 document of the same API: the  *)
(* 2.0 top-level maps under components, the server from host, schemes and  *)
(* basePath, and every pointer naming the place its target has moved to.   *)
(***************************************************************************)
\* a pointer into a Swagger 2.0 document, as the OpenAPI 3 document holds it
MovedPointer(pointer) ==
    CASE StartsWith(pointer, "#/definitions/") ->
            ReplaceFirst(pointer, "#/definitions/", "#/components/schemas/")
      [] StartsWith(pointer, "#/parameters/") ->
            ReplaceFirst(pointer, "#/parameters/", "#/components/parameters/")
      [] StartsWith(pointer, "#/responses/") ->
            ReplaceFirst(pointer, "#/responses/", "#/components/responses/")
      [] OTHER -> pointer

RECURSIVE MovePointers(_)
MovePointers(tr) ==
    [tr EXCEPT !.kv = [i \in 1..Len(tr.kv) |->
        <<tr.kv[i][1],
          IF tr.kv[i][1] = "$ref" /\ tr.kv[i][2].t = "str"
          THEN Str(MovedPointer(tr.kv[i][2].s))
          ELSE MovePointers(tr.kv[i][2])>>]]

\* the field `to` holding what the field `from` of doc holds, when doc has it
MovedField(doc, from, to) ==
    IF HasField(doc, from) THEN << <<to, MovePointers(Field(doc, from))>> >> ELSE <<>>

AsOpenApi3(doc) ==
    Obj(<< <<"openapi", Str("3.0.0")>>, <<"info", Field(doc, "info")>>,
           <<"servers",
             IF HasField(doc, "host")
             THEN Arr(<<Obj(<< <<"url", Str(Field(Field(doc, "schemes"), "0").s \o "://"
                                           \o Field(doc, "host").s
                                           \o Field(doc, "basePath").s)>> >>)>>)
             ELSE Arr(<<>>)>> >>
        \o MovedField(doc, "paths", "paths")
        \o << <<"components",
                Obj(MovedField(doc, "definitions", "schemas")
                    \o MovedField(doc, "parameters", "parameters")
                    \o MovedField(doc, "responses", "responses")
                    \o MovedField(doc, "securityDefinitions", "securitySchemes"))>> >>
        \o MovedField(doc, "tags", "tags"))

\* a Swagger 2.0 document all of whose pointers name a node of it
ValidSwagger2(doc) ==
    /\ Field(doc, "swagger") = Str("2.0")
    /\ \A p \in RefsIn(doc) : Target(doc, p).t # "undef"

\* what normalizeDoc returns for a document
Normalized(doc) ==
    LET raw == Alloc(<<>>, doc)
        res == normalizeDoc(raw.h, raw.v)
    IN  Tree(res.h, res.v)

\* the members of a map, none when the map is absent
Contents(map) == IF map.t = "undef" THEN <<>> ELSE map.kv

\* the fields two canonical documents of one API agree on
CanonicalFields(doc) ==
    [openapi |-> Field(doc, "openapi"), info |-> Field(doc, "info"),
     servers |-> Field(doc, "servers"), paths |-> Field(doc, "paths"),
     tags |-> Field(doc, "tags"),
     schemas |-> Contents(Field(Field(doc, "components"), "schemas")),
     parameters |-> Contents(Field(Field(doc, "components"), "parameters")),
     responses |-> Contents(Field(Field(doc, "components"), "responses")),
     securitySchemes |-> Contents(Field(Field(doc, "components"), "securitySchemes"))]

(***************************************************************************)
(* C11.  For a valid Swagger 2.0 document and the OpenAPI 3 document of    *)
(* the same API, normalizeDoc returns canonical documents equal field for  *)
(* field: openapi, info, servers, paths, tags and the contents of the four *)
(* components maps.                                                        *)
(***************************************************************************)
C11_SameApiSameCanonical ==
    pc = "normalized" /\ ValidSwagger2(Document) =>
        CanonicalFields(Tree(heap, normalizedDoc))
            = CanonicalFields(Normalized(AsOpenApi3(Document)))

(***************************************************************************)
(* C12.  parse given null, a number, any other non-string or the empty     *)
(* string fails with ValidationError, and by then nothing was fetched, no  *)
(* file was read and no decoder was called.                                *)
(***************************************************************************)
C12_InvalidInputFailsFirst ==
    (input.t # "str" \/ input.s = "") /\ pc # "parse" =>
        /\ pc = "failed"
        /\ error.name = "ValidationError"
        /\ log = <<>>
        /\ content = NoText /\ rawDoc = Undefined

\* parse has failed on the number 123
C12_Witness == input.t = "num" /\ input.s = "123" /\ pc = "failed"

(***************************************************************************)
(* C13.  A decoded document with none of the fields swagger, openapi,      *)
(* info, paths makes parse fail with ValidationError before normalizeDoc;  *)
(* a decoded document with at least one of them passes the structure       *)
(* check.                                                                  *)
(***************************************************************************)
HasRequiredField(doc) == \E i \in 1..Len(RequiredFields) : HasField(doc, RequiredFields[i])

C13_StructureCheck ==
    SeqIncludes(log, "validateBasicStructure") =>
        IF HasRequiredField(Document)
        THEN pc = "validated" \/ SeqIncludes(log, "normalizeDoc")
        ELSE /\ pc = "failed"
             /\ error.name = "ValidationError"
             /\ ~SeqIncludes(log, "normalizeDoc")

(***************************************************************************)
(* C14.  When the locator is a URL and the fetch fails in transport, parse *)
(* fails with NetworkError carrying the failure as its cause, after one    *)
(* fetch: no second fetch, no file read and no decoding.                   *)
(***************************************************************************)
C14_TransportFailureIsNetworkError ==
    /\ input.t = "str" /\ isValidUrl(input.s) /\ input.s \notin Responses
    /\ pc \notin {"parse", "fetching"}
    => /\ pc = "failed"
       /\ error.name = "NetworkError"
       /\ error.cause = "transport"
       /\ log = <<"fetch">>
       /\ content = NoText /\ rawDoc = Undefined

\* the fetch of https://api.error.com/docs has failed
C14_Witness ==
    /\ input.s = "https://api.error.com/docs"
    /\ pc = "failed"
    /\ error.operation = "fetchFromUrl"

(***************************************************************************)
(* C15.  Each stage fails fast: the stages of one parse run in the order   *)
(* load, decode, structure check, normalize, resolve references, project,  *)
(* none running unless the one before it has; when a stage fails no later  *)
(* stage runs, the error is the one the caller gets, and no IR is          *)
(* returned.                                                               *)
(***************************************************************************)
StageOrder ==
    <<{"fetch", "readFile"}, {"JSON.parse"}, {"parseYaml"}, {"validateBasicStructure"},
      {"normalizeDoc"}, {"resolveRefs"}, {"transformToControllerFormat"},
      {"generateCreateClientFile"}, {"generateControllerFiles"}>>

StageRank(stage) == CHOOSE i \in 1..Len(StageOrder) : stage \in StageOrder[i]

\* the stages that ran, each right after the one before it: the load stage
\* logs nothing for literal content, the YAML decoder runs only after JSON's
StagesInOrder ==
    /\ log # <<>> => log[1] \in {"fetch", "readFile", "JSON.parse"}
    /\ \A i \in 2..Len(log) :
           \/ StageRank(log[i]) = StageRank(log[i - 1]) + 1
           \/ log[i - 1] = "JSON.parse" /\ log[i] = "validateBasicStructure"

C15_FailFast ==
    /\ [](/\ StagesInOrder
          /\ pc = "failed" => error.name # "" /\ result = Undefined
          /\ error.name # "" => pc \in {"failed", "rejected"})
    /\ [][error.name = ""]_vars

\* resolveRefs has thrown and parse has ended there
C15_Witness ==
    /\ pc = "failed"
    /\ log = <<"JSON.parse", "validateBasicStructure", "normalizeDoc", "resolveRefs">>
    /\ result = Undefined

(***************************************************************************)
(* C16.  Default controller: an operation with no `tags` field is placed   *)
(* in the controller named DefaultController and in no other controller.   *)
(* (An operation the filter of C1 excludes is in no list; its controller   *)
(* is still there.)                                                        *)
(***************************************************************************)
\* the controllers of the IR parse returned: <<name, operation list>> pairs
Controllers == Field(Tree(heap, result), "controllers").kv

\* the controller list holds the operation of (path, method)
Lists(list, op) ==
    \E o \in 1..Len(list.kv) :
        /\ Field(list.kv[o][2], "path") = Str(op.path)
        /\ Field(list.kv[o][2], "method") = Str(op.method)

Untagged(op) == ~HasField(op.operation, "tags")

Listable(op) ==
    /\ Field(op.operation, "operationId").t = "str"
    /\ Field(op.operation, "operationId").s # ""
    /\ ~Includes(Field(op.operation, "operationId").s, "Controller_")

C16_DefaultController ==
    Returned =>
        \A i \in 1..Len(DocumentOperations(Document)) :
            LET op == DocumentOperations(Document)[i]
            IN  Untagged(op) =>
                    /\ \E d \in 1..Len(Controllers) : Controllers[d][1] = "DefaultController"
                    /\ \A c \in 1..Len(Controllers) :
                           IF Controllers[c][1] = "DefaultController"
                           THEN Listable(op) => Lists(Controllers[c][2], op)
                           ELSE ~Lists(Controllers[c][2], op)

\* an untagged operation is listed under DefaultController, next to a
\* controller that lists a tagged one
C16_Witness ==
    /\ Returned
    /\ \E i \in 1..Len(DocumentOperations(Document)) :
           /\ Untagged(DocumentOperations(Document)[i])
           /\ \E c \in 1..Len(Controllers) :
                  /\ Controllers[c][1] = "DefaultController"
                  /\ Lists(Controllers[c][2], DocumentOperations(Document)[i])
    /\ \E c \in 1..Len(Controllers) :
           Controllers[c][1] # "DefaultController" /\ Controllers[c][2].kv # <<>>

(***************************************************************************)
(* Servers of a Swagger 2.0 document.                                      *)
(***************************************************************************)
\* the document has no host: the field is absent, null or empty
NoHost(doc) == Field(doc, "host").t \in {"undef", "null"} \/ Field(doc, "host") = Str("")

FirstScheme(doc) == Field(Field(doc, "schemes"), "0")

\* the basePath, empty when the document has none
BasePathOf(doc) == IF Field(doc, "basePath").t = "str" THEN Field(doc, "basePath").s ELSE ""

\* the servers of a document with a host whose scheme is scheme
OneServer(doc, scheme) ==
    Arr(<<Obj(<< <<"url", Str(scheme \o "://" \o Field(doc, "host").s \o BasePathOf(doc))>> >>)>>)

(***************************************************************************)
(* C17.  For a Swagger 2.0 document normalizeDoc sets servers to the empty *)
(* sequence when there is no host, and otherwise to the single entry       *)
(* {url: scheme://host + basePath}, scheme being schemes[0] when that is   *)
(* present (neither null nor undefined) and "https" otherwise.             *)
(***************************************************************************)
C17_SchemeUnlessNullish ==
    pc = "normalized" /\ HasField(Document, "swagger") =>
        Field(Tree(heap, normalizedDoc), "servers")
            = IF NoHost(Document) THEN Arr(<<>>)
              ELSE OneServer(Document,
                             IF FirstScheme(Document).t \in {"undef", "null"} THEN "https"
                             ELSE FirstScheme(Document).s)

(***************************************************************************)
(* C17, amended.  As C17, scheme being schemes[0] when that is present and *)
(* not empty, and "https" otherwise.                                       *)
(***************************************************************************)
C17_SchemeUnlessEmpty ==
    pc = "normalized" /\ HasField(Document, "swagger") =>
        Field(Tree(heap, normalizedDoc), "servers")
            = IF NoHost(Document) THEN Arr(<<>>)
              ELSE OneServer(Document,
                             IF FirstScheme(Document).t \in {"undef", "null"}
                                    \/ FirstScheme(Document) = Str("")
                             THEN "https"
                             ELSE FirstScheme(Document).s)

\* host api.example.com with an empty first scheme and no basePath
C17_Witness ==
    /\ pc = "normalized"
    /\ Field(Document, "host") = Str("api.example.com")
    /\ FirstScheme(Document) = Str("")
    /\ Field(Tree(heap, normalizedDoc), "servers")
           = Arr(<<Obj(<< <<"url", Str("https://api.example.com")>> >>)>>)

(***************************************************************************)
(* C18.  For every raw document that passes the structure check, of either *)
(* version, what normalizeDoc returns has the canonical shape: openapi,    *)
(* info, servers (a sequence), paths (a mapping) and components whose      *)
(* schemas, parameters, responses and securitySchemes are each a mapping.  *)
(***************************************************************************)
ComponentMaps == <<"schemas", "parameters", "responses", "securitySchemes">>

CanonicalShape(doc) ==
    /\ Field(doc, "openapi").t # "undef"
    /\ Field(doc, "info").t = "obj"
    /\ Field(doc, "servers").t = "arr"
    /\ Field(doc, "paths").t = "obj"
    /\ \A i \in 1..Len(ComponentMaps) :
           Field(Field(doc, "components"), ComponentMaps[i]).t = "obj"

C18_CanonicalShape == pc = "normalized" => CanonicalShape(Tree(heap, normalizedDoc))

(***************************************************************************)
(* C19.  A `$ref` pointer is classified parameter when its path has a      *)
(* segment `parameters`, otherwise schema when it has a segment `schemas`, *)
(* otherwise other; a schema or other reference is replaced by exactly     *)
(* {modelName: final segment, refType: its kind, isReference: true}, with  *)
(* none of the target's fields, and a parameter reference is not.  Stated  *)
(* of the `$ref` nodes resolveRef comes to: those outside parameter        *)
(* objects and outside dereferenced targets.                               *)
(* The normalized document is read as the clone holds it: a field whose    *)
(* value is undefined is absent.                                           *)
(***************************************************************************)
Segments(pointer) == Split(pointer, "/")

KindOf(pointer) ==
    IF \E i \in 1..Len(Segments(pointer)) : Segments(pointer)[i] = "parameters"
    THEN "parameter"
    ELSE IF \E i \in 1..Len(Segments(pointer)) : Segments(pointer)[i] = "schemas"
    THEN "schema"
    ELSE "other"

HandleAs(pointer, kind) ==
    Obj(<< <<"modelName", Str(Segments(pointer)[Len(Segments(pointer))])>>,
           <<"refType", Str(kind)>>,
           <<"isReference", Bool(TRUE)>> >>)

HandleOf(pointer) == HandleAs(pointer, KindOf(pointer))

IsRefNode(tr) == tr.t = "obj" /\ Field(tr, "$ref").t = "str" /\ Field(tr, "$ref").s # ""

IsParameterNode(tr) ==
    /\ tr.t = "obj"
    /\ \A k \in {"in", "name", "schema"} :
           Field(tr, k).t \notin {"undef", "null"} /\ Field(tr, k) # Str("")

RECURSIVE RefsReplaced(_, _)
\* after holds, for every `$ref` node of before that resolveRef comes to,
\* what the claim says replaces it
RefsReplaced(before, after) ==
    IF IsRefNode(before)
    THEN IF KindOf(Field(before, "$ref").s) = "parameter"
         THEN after \notin {HandleAs(Field(before, "$ref").s, kind) :
                                 kind \in {"schema", "other"}}
         ELSE after = HandleOf(Field(before, "$ref").s)
    ELSE IF IsParameterNode(before) THEN TRUE
    ELSE /\ Len(after.kv) = Len(before.kv)
         /\ \A i \in 1..Len(before.kv) :
                RefsReplaced(before.kv[i][2], after.kv[i][2])

C19_ReferenceHandles ==
    pc = "resolved" =>
        RefsReplaced(StripUndefined(Tree(heap, normalizedDoc)),
                     Tree(heap, docWithResolvedRefs))

\* a schema reference, a reference that is neither, and a reference with both
\* segments, each replaced
C19_Witness ==
    /\ pc = "resolved"
    /\ Document \in RefDocs
    /\ \E p \in {"#/components/schemas/Test", "#/components/schemas/parameters"} :
           /\ Descend(Document, <<"paths", "/users", "post", "responses", "200", "content",
                                  "application/json", "schema">>) = PRef(p)
           /\ Descend(Document, <<"paths", "/users", "post", "responses", "404">>)
                  = PRef("#/components/responses/NotFound")
           /\ Descend(Tree(heap, docWithResolvedRefs),
                      <<"paths", "/users", "post", "responses", "404">>)
                  = HandleOf("#/components/responses/NotFound")
           /\ Descend(Tree(heap, docWithResolvedRefs),
                      <<"paths", "/users", "post", "responses", "200", "content",
                        "application/json", "schema">>)
                  \in {HandleOf("#/components/schemas/Test"), TestSchema}

(***************************************************************************)
(* The parameters of the operations of the normalized document, each with  *)
(* its definition: the target of its pointer, or the parameter itself.     *)
(***************************************************************************)
ParameterPlaces(doc) ==
    UNION {{<<i, k>> : k \in 1..Len(Field(DocumentOperations(doc)[i].operation,
                                          "parameters").kv)} :
           i \in 1..Len(DocumentOperations(doc))}

WrittenAt(doc, place) ==
    ParametersAt(doc, DocumentOperations(doc)[place[1]].path,
                 DocumentOperations(doc)[place[1]].method)[place[2]][2]

DefinitionAt(doc, place) ==
    IF IsRefNode(WrittenAt(doc, place))
    THEN Target(doc, Field(WrittenAt(doc, place), "$ref").s)
    ELSE WrittenAt(doc, place)

IsPrimitiveParameter(def) ==
    /\ IsParameterNode(def)
    /\ Field(Field(def, "schema"), "type") \in {Str("string"), Str("integer")}

IsDescriptor(tr) ==
    /\ Field(tr, "refType") = Str("parameter")
    /\ Field(tr, "parameterDetails").t = "obj"
    /\ HasField(tr, "modelName") /\ Field(tr, "isReference").t = "bool"

\* the descriptor of a primitive parameter, an inline one being anonymous
DescriptorAt(doc, place) ==
    /\ IsDescriptor(ResolvedAt(place))
    /\ ~IsRefNode(WrittenAt(doc, place)) =>
           /\ Field(ResolvedAt(place), "modelName") = Null
           /\ Field(ResolvedAt(place), "isReference") = Bool(FALSE)

(***************************************************************************)
(* C20.  Only primitive parameters are turned into descriptors: a          *)
(* parameter, referenced or inline, whose schema type is neither string    *)
(* nor integer, or that lacks in, name or schema, passes through as the    *)
(* original node with all its fields unchanged; one with a string or       *)
(* integer schema becomes a descriptor, an inline one with modelName null  *)
(* and isReference false.                                                  *)
(***************************************************************************)
C20_OthersPassThrough ==
    pc = "resolved" =>
        \A place \in ParameterPlaces(Tree(heap, normalizedDoc)) :
            LET doc == Tree(heap, normalizedDoc)
            IN  IF IsPrimitiveParameter(DefinitionAt(doc, place))
                THEN DescriptorAt(doc, place)
                ELSE ResolvedAt(place) = DefinitionAt(doc, place)

(***************************************************************************)
(* C20, amended.  As C20 for a parameter with a string or integer schema   *)
(* and for one that has in, name and schema with another schema type.  A   *)
(* parameter that lacks in, name or schema is no descriptor either, but it *)
(* is resolved as any other object, the `$ref` nodes below it replaced in  *)
(* place: it is unchanged when no `$ref` sits below it.                    *)
(***************************************************************************)
C20_OthersAreNoDescriptors ==
    pc = "resolved" =>
        \A place \in ParameterPlaces(Tree(heap, normalizedDoc)) :
            LET doc == Tree(heap, normalizedDoc)
                def == DefinitionAt(doc, place)
            IN  IF IsPrimitiveParameter(def) THEN DescriptorAt(doc, place)
                ELSE IF IsParameterNode(def) THEN ResolvedAt(place) = def
                ELSE /\ ~IsDescriptor(ResolvedAt(place))
                     /\ RefsReplaced(def, ResolvedAt(place))
                     /\ ~CarriesRef(def) => ResolvedAt(place) = def

\* an operation with an inline string parameter, now an anonymous descriptor,
\* and a parameter described by `content`, its schema now a handle
C20_Witness ==
    /\ pc = "resolved"
    /\ \E place, other \in ParameterPlaces(Tree(heap, normalizedDoc)) :
           /\ WrittenAt(Tree(heap, normalizedDoc), place) = ParamTree("inlineString")
           /\ Field(ResolvedAt(place), "modelName") = Null
           /\ Field(Field(ResolvedAt(place), "parameterDetails"), "type") = Str("string")
           /\ DefinitionAt(Tree(heap, normalizedDoc), other) = ContentParameter
           /\ Descend(ResolvedAt(other), <<"content", "application/json", "schema">>)
                  = HandleOf("#/components/schemas/Test")

(***************************************************************************)
(* C21.  Chained references are followed one hop only: where a parameter   *)
(* `$ref` points at a node that is itself a `$ref`, resolveRefs puts that  *)
(* intermediate node, still carrying its own `$ref`, at the reference      *)
(* site, and follows no second pointer.  The sites are the parameters of   *)
(* operations and the entries of components.parameters.                    *)
(***************************************************************************)
ComponentParameters(doc) == Field(Field(doc, "components"), "parameters").kv

\* the entries of components.parameters that are parameter references
ComponentParameterRefs(doc) ==
    {i \in 1..Len(ComponentParameters(doc)) :
        /\ IsRefNode(ComponentParameters(doc)[i][2])
        /\ KindOf(Field(ComponentParameters(doc)[i][2], "$ref").s) = "parameter"}

C21_OneHopOnly ==
    pc = "resolved" =>
        LET doc == Tree(heap, normalizedDoc)
            out == Tree(heap, docWithResolvedRefs)
        IN  /\ \A place \in ParameterPointers(doc) :
                   IsRefNode(Target(doc, PointerAt(doc, place))) =>
                       ResolvedAt(place) = Target(doc, PointerAt(doc, place))
            /\ \A i \in ComponentParameterRefs(doc) :
                   LET target == Target(doc, Field(ComponentParameters(doc)[i][2], "$ref").s)
                   IN  IsRefNode(target) => ComponentParameters(out)[i][2] = target

(***************************************************************************)
(* C22.  Projection loses and duplicates nothing: every operation of the   *)
(* document with a non-empty operationId that does not contain             *)
(* "Controller_" appears exactly once in the IR, in the controller named   *)
(* by its first tag (DefaultController when it has none), with its own     *)
(* method and path, and every operation of the IR is such an operation of  *)
(* the document.                                                           *)
(***************************************************************************)
\* the name of the controller the claim gives an operation
FirstTagOrDefault(op) ==
    IF Field(op.operation, "tags").kv = <<>> THEN "DefaultController"
    ELSE Field(op.operation, "tags").kv[1][2].s

\* the positions <<controller, index>> of the operations of the IR
IRPositions ==
    UNION {{<<c, o>> : o \in 1..Len(Controllers[c][2].kv)} : c \in 1..Len(Controllers)}

\* the IR holds the operation op at a position
IsAt(op, position) ==
    LET entry == Controllers[position[1]][2].kv[position[2]][2]
    IN  /\ Field(entry, "path") = Str(op.path)
        /\ Field(entry, "method") = Str(op.method)
        /\ Field(entry, "operationId") = Field(op.operation, "operationId")

C22_NothingLostNothingDuplicated ==
    Returned =>
        LET ops == DocumentOperations(Document)
        IN  /\ \A i \in 1..Len(ops) :
                   Listable(ops[i]) =>
                       /\ Cardinality({position \in IRPositions : IsAt(ops[i], position)}) = 1
                       /\ \A position \in IRPositions :
                              IsAt(ops[i], position) =>
                                  Controllers[position[1]][1] = FirstTagOrDefault(ops[i])
            /\ \A position \in IRPositions :
                   \E i \in 1..Len(ops) : Listable(ops[i]) /\ IsAt(ops[i], position)

\* three operations with the same operationId, one under its first tag and
\* two, one without tags and one with an empty tags list, under the default
C22_Witness ==
    /\ Returned
    /\ Cardinality(IRPositions) = 3
    /\ \E c, d \in 1..Len(Controllers) :
           /\ Controllers[c][1] = "DefaultController" /\ Len(Controllers[c][2].kv) = 2
           /\ Controllers[d][1] = "TestController" /\ Len(Controllers[d][2].kv) = 1
    /\ \E i \in 1..Len(DocumentOperations(Document)) :
           /\ HasField(DocumentOperations(Document)[i].operation, "tags")
           /\ FirstTagOrDefault(DocumentOperations(Document)[i]) = "DefaultController"

(***************************************************************************)
(* C23.  For every string input, parse returns an IR or fails with a       *)
(* ValidationError, a ContentParsingError or a NetworkError: a document    *)
(* that passes the structure check without `info` or `paths`, a text that  *)
(* decodes to null or to a scalar, and a `$ref` whose target is missing    *)
(* surface no other kind of error.                                         *)
(***************************************************************************)
ErrorKinds == {"ValidationError", "ContentParsingError", "NetworkError"}

C23_OnlyThreeErrorKinds ==
    input.t = "str" /\ ParseDone => Returned \/ error.name \in ErrorKinds

(***************************************************************************)
(* C24.  Reference resolution terminates on every canonical document, also *)
(* when its `$ref` pointers form a cycle or point at themselves: the step  *)
(* from a normalized document ends with the resolved tree or a throw, it   *)
(* never exhausts the call stack, and with a cycle it ends with the tree,  *)
(* in which a reference into the cycle is dereferenced one hop, the node   *)
(* it points at standing at the reference site unentered.                  *)
(***************************************************************************)
C24_ResolutionTerminates ==
    /\ [][pc = "normalized" =>
              /\ (pc' = "resolved" \/ pc' = "failed")
              /\ error'.name # "RangeError"
              /\ (Cyclic(Document) => pc' = "resolved")]_vars
    /\ [](pc = "resolved" /\ Cyclic(Document) =>
              \A place \in ParameterPointers(Tree(heap, normalizedDoc)) :
                  LET target == Target(Tree(heap, normalizedDoc),
                                       PointerAt(Tree(heap, normalizedDoc), place))
                  IN  IsRefNode(target) => ResolvedAt(place) = target)

\* a document with a two-pointer cycle and a pointer at itself, both
\* referenced from an operation, is resolved
C24_Witness ==
    /\ pc = "resolved"
    /\ Cyclic(Document)
    /\ \E a, b \in ParameterPointers(Tree(heap, normalizedDoc)) :
           /\ PointerAt(Tree(heap, normalizedDoc), a) = "#/components/parameters/LoopA"
           /\ ResolvedAt(a) = PRef("#/components/parameters/LoopB")
           /\ PointerAt(Tree(heap, normalizedDoc), b) = "#/components/parameters/Self"
           /\ ResolvedAt(b) = PRef("#/components/parameters/Self")

(***************************************************************************)
(* C25.  The descriptor of a parameter `$ref` does not depend on the order *)
(* of traversal: whether the target under components.parameters has been  *)
(* visited and rewritten before the reference is reached or not, the       *)
(* reference resolves to the descriptor with modelName the pointer's final *)
(* segment and isReference true, and a document that differs only in the   *)
(* order of the entries of components.parameters resolves to the same      *)
(* entries and the same paths.                                             *)
(***************************************************************************)
\* the document with the entries of components.parameters in reverse order
ParametersReversed(doc) ==
    LET Within(tr, key, inner) ==
            Obj([i \in 1..Len(tr.kv) |->
                    IF tr.kv[i][1] = key THEN <<key, inner>> ELSE tr.kv[i]])
        components == Field(doc, "components")
        entries == ComponentParameters(doc)
    IN  Within(doc, "components",
               Within(components, "parameters",
                      Obj([i \in 1..Len(entries) |-> entries[Len(entries) + 1 - i]])))

\* the tree resolveRefs returns for a document tree
ResolvedTree(doc) ==
    Bind(Alloc(<<>>, doc),
         LAMBDA made : Bind(resolveRefs(made.h, made.v),
                            LAMBDA res : IF res.err # "" THEN Str(res.err)
                                         ELSE Tree(res.h, res.v)))

\* the entry of components.parameters a pointer names is a definition with
\* `in`, `name` and a schema of type string or integer
PointsAtPrimitive(doc, pointer) ==
    /\ StartsWith(pointer, ComponentParameterPrefix)
    /\ IsParameterNode(Target(doc, pointer))
    /\ Field(Field(Target(doc, pointer), "schema"), "type") \in {Str("string"), Str("integer")}

IsReferenceDescriptor(tr, pointer) ==
    /\ Field(tr, "modelName") = Str(Segments(pointer)[Len(Segments(pointer))])
    /\ Field(tr, "isReference") = Bool(TRUE)
    /\ Field(tr, "refType") = Str("parameter")

C25_OrderIndependent ==
    pc = "resolved" /\ HasField(Field(Tree(heap, normalizedDoc), "components"), "parameters") =>
        LET doc == Tree(heap, normalizedDoc)
            out == Tree(heap, docWithResolvedRefs)
            other == ResolvedTree(ParametersReversed(doc))
        IN  /\ \A place \in ParameterPointers(doc) :
                   PointsAtPrimitive(doc, PointerAt(doc, place)) =>
                       IsReferenceDescriptor(ResolvedAt(place), PointerAt(doc, place))
            /\ \A i \in ComponentParameterRefs(doc) :
                   LET pointer == Field(ComponentParameters(doc)[i][2], "$ref").s
                   IN  PointsAtPrimitive(doc, pointer) =>
                           IsReferenceDescriptor(ComponentParameters(out)[i][2], pointer)
            /\ Field(other, "paths") = Field(out, "paths")
            /\ {ComponentParameters(other)[i] : i \in 1..Len(ComponentParameters(other))}
                   = {ComponentParameters(out)[i] : i \in 1..Len(ComponentParameters(out))}

(***************************************************************************)
(* C26.  For a Swagger 2.0 document, a `$ref` written against the source   *)
(* layout still resolves after normalizeDoc has moved the maps under       *)
(* components: the parse does not fail, `#/parameters/N` yields the        *)
(* descriptor of the parameter N and `#/definitions/N` the handle with     *)
(* refType schema, as `#/components/parameters/N` and                      *)
(* `#/components/schemas/N` do for an OpenAPI 3 document.                  *)
(***************************************************************************)
RECURSIVE DefinitionRefsAreSchemas(_, _)
\* after holds a schema handle wherever before holds a `#/definitions/` pointer
\* that resolveRef comes to
DefinitionRefsAreSchemas(before, after) ==
    IF IsRefNode(before)
    THEN StartsWith(Field(before, "$ref").s, "#/definitions/") =>
             after = HandleAs(Field(before, "$ref").s, "schema")
    ELSE IF IsParameterNode(before) THEN TRUE
    ELSE /\ Len(after.kv) = Len(before.kv)
         /\ \A i \in 1..Len(before.kv) :
                DefinitionRefsAreSchemas(before.kv[i][2], after.kv[i][2])

C26_Swagger2PointersResolve ==
    Field(Document, "swagger") = Str("2.0") =>
        /\ pc # "failed"
        /\ pc = "resolved" =>
               /\ \A place \in ParameterPointers(Tree(heap, normalizedDoc)) :
                      LET pointer == PointerAt(Tree(heap, normalizedDoc), place)
                          def == Target(Document, pointer)
                      IN  StartsWith(pointer, "#/parameters/") /\ IsParameterNode(def) =>
                              /\ IsReferenceDescriptor(ResolvedAt(place), pointer)
                              /\ Field(Field(ResolvedAt(place), "parameterDetails"), "name")
                                     = Field(def, "name")
               /\ DefinitionRefsAreSchemas(StripUndefined(Tree(heap, normalizedDoc)),
                                           Tree(heap, docWithResolvedRefs))

(***************************************************************************)
(* C27.  resolveRefs rewrites a node into a ParameterDescriptor only when  *)
(* the node is a parameter: an element of a `parameters` sequence, an      *)
(* entry of components.parameters, or the target of a parameter reference. *)
(* Any other mapping with truthy `in`, `name` and `schema` keys, such as   *)
(* the `properties` of a schema or the components.schemas map, keeps all   *)
(* of its fields and is resolved recursively.                              *)
(***************************************************************************)
KeysOf(tr) == [i \in 1..Len(tr.kv) |-> tr.kv[i][1]]

RECURSIVE OnlyParametersRewritten(_, _, _)
\* before sits under the key `key`: outside the values of a `parameters`
\* sequence or map, after has the fields of before, and handles for its
\* references
OnlyParametersRewritten(before, after, key) ==
    IF IsRefNode(before)
    THEN KindOf(Field(before, "$ref").s) # "parameter" =>
             after = HandleOf(Field(before, "$ref").s)
    ELSE /\ KeysOf(after) = KeysOf(before)
         /\ after.t = before.t
         /\ key # "parameters" =>
                \A i \in 1..Len(before.kv) :
                    OnlyParametersRewritten(before.kv[i][2], after.kv[i][2], before.kv[i][1])

C27_OnlyParametersRewritten ==
    pc = "resolved" =>
        OnlyParametersRewritten(StripUndefined(Tree(heap, normalizedDoc)),
                                Tree(heap, docWithResolvedRefs), "")

(***************************************************************************)
(* C28.  Every operation of the IR has a method that is one of get, post,  *)
(* put, delete, patch, options, head, trace, and every key of              *)
(* IR.controllers is the first tag, or the default name, of an operation   *)
(* found under such a method key: the entries of a path item that are no   *)
(* operations (`parameters`, `summary`, `description`, extension keys)     *)
(* create neither an operation nor a controller.                           *)
(***************************************************************************)
C28_OnlyHttpMethods ==
    Returned =>
        /\ \A position \in IRPositions :
               \E m \in HttpMethods :
                   Field(Controllers[position[1]][2].kv[position[2]][2], "method") = Str(m)
        /\ \A c \in 1..Len(Controllers) :
               \E i \in 1..Len(DocumentOperations(Document)) :
                   /\ DocumentOperations(Document)[i].method \in HttpMethods
                   /\ FirstTagOrDefault(DocumentOperations(Document)[i]) = Controllers[c][1]
====
